---- MODULE Spec2Model ----
(***************************************************************************)
(* Model of the must-gather exporter (package mustgather, Gatherer):       *)
(* table resolution (resolveTables, GetDefaultProfiles), the window loop   *)
(* of exportTableData, the per-window sort and stitch, and the artifact    *)
(* writes of exportTables and Run.                                         *)
(*                                                                         *)
(* Representation.                                                         *)
(*  - Time is counted in milliseconds.  An instant is an integer number   *)
(*    of milliseconds; so is the duration of a run, a part of a            *)
(*    millisecond counted as a whole one.  A duration string is a          *)
(*    sequence of tokens: a run of digits (its value and the number of     *)
(*    leading zeros) or one other character.  time.ParseDuration keeps     *)
(*    the size it reads as hours, milliseconds and nanoseconds, so that    *)
(*    the int64 range of time.Duration is the range of the model.  What    *)
(*    the code computes in float64, the fraction of a number and           *)
(*    Duration.Seconds, is computed on the bits, rounded to 53 of them.    *)
(*  - A character is a string of one character, of Latin-1 or one of the   *)
(*    characters named in the section Characters; a character a string     *)
(*    cannot hold is written by its name, "U+2028".                        *)
(*  - A comma-separated flag value (--tables, --profiles) is a sequence of *)
(*    tokens: "," is the separator, a white-space character is a token of  *)
(*    its own, every other token is a run of characters that are neither.  *)
(*    "" is the empty sequence.                                            *)
(*  - A row timestamp is a record [ok, t, raw]: raw is the rank of the     *)
(*    string in byte order, ok says whether it parses as RFC3339, t is the *)
(*    parsed instant counted in half milliseconds.                         *)
(*  - A log message and a name given to SafeFileName are sequences of     *)
(*    characters.                                                          *)
(*  - The retry loop of AIGatherer.validateAndFixKQLQuery is modelled on   *)
(*    its own (variable ai): a query is a name, the log store and the fix  *)
(*    request answer as they please.                                       *)
(***************************************************************************)
EXTENDS Integers, Sequences, FiniteSets, TLC

VARIABLES
    cfg,            \* Gatherer.config
    pc,             \* position of Run
    iso,            \* Run: iso, the timespan as ISO8601Duration returned it
    catalog,        \* tables listed by the management plane (Run, AllTables)
    tables,         \* Run: tables, after resolveTables
    ti,             \* exportTables: index of the table of the range loop
    schemas,        \* exportTables: for each table begun, whether tcli.Get succeeded
    since,          \* exportTableData: since
    dur,            \* exportTableData: dur
    t0,             \* exportTableData: loop cursor t0
    rowsTotal,      \* exportTableData: rowsTotal
    chunkIndex,     \* exportTableData: chunkIndex
    tar,            \* entries written to the tar writer, in order
    stitchedLogs,   \* exportTables: stitchedLogs (ckey -> lines)
    stitchedEvents, \* exportTables: stitchedEvents (namespace -> lines)
    cancelled,      \* g.ctx is done
    hist,           \* every QueryWorkspace call made, in order
    clock,          \* time.Now(), milliseconds
    absent,         \* tables that do not exist in the workspace
    budget,         \* rows the log store may still return in this run
    workspace,      \* what the management plane answers for the workspace
    store,          \* the rows the log store holds
    sink,           \* the output file: whether it can be created, room left
    outFile,        \* os.Create has created the output file
    ret,            \* what Run has returned: "" while it runs, "nil", an error
    arg,            \* a utility function called on its own: its argument
    out,            \* and the results of the calls made so far
    ai              \* validateAndFixKQLQuery: attempt, currentQuery, calls, result

vars == << cfg, pc, iso, catalog, tables, ti, schemas, since, dur, t0, rowsTotal, chunkIndex, tar,
           stitchedLogs, stitchedEvents, cancelled, hist, clock, absent, budget,
           workspace, store, sink, outFile, ret, arg, out, ai >>

\* the variables only the calls of utility functions on their own change
util == << arg, out >>

----------------------------------------------------------------------------
(* Bounds of the model *)

\* longest lookback duration of the window planner runs, in minutes
MaxDur == 190
\* most entries of a --tables value
MaxTables == 2
\* most entries of a --profiles value
MaxProfiles == 3
\* most rows the log store returns over one run
MaxRows == 2
\* most writes a sink that fills up takes
MaxRoom == 3
\* longest table name given to SafeFileName, in characters
MaxName == 3
\* most hours in a duration given to ISO8601Duration
MaxHours == 2

----------------------------------------------------------------------------
(* Program constants, in milliseconds *)

\* time.Second
Second == 1000
\* time.Minute
Minute == 60 * Second
\* time.Hour
Hour == 60 * Minute
\* 15 * time.Minute
QuarterHour == 15 * Minute
\* 2 * time.Hour
TwoHours == 2 * Hour

----------------------------------------------------------------------------
(* Sequences *)

Range(s) == { s[i] : i \in 1..Len(s) }

SeqsUpTo(S, n) == UNION { [1..k -> S] : k \in 0..n }

NoDuplicates(s) == \A i, j \in 1..Len(s) : i # j => s[i] # s[j]

RECURSIVE Concat(_)
Concat(ss) == IF ss = << >> THEN << >> ELSE Head(ss) \o Concat(Tail(ss))

\* the number of halvings that bring n places down to one
Levels(n) == CHOOSE k \in 0..8 : 2^k >= n /\ \A j \in 0..(k - 1) : 2^j < n

\* the strings of ss from place lo on, 2^k of them at most, one after the other
RECURSIVE JoinRange(_, _, _)
JoinRange(ss, lo, k) ==
    IF lo > Len(ss) THEN ""
    ELSE IF k = 0 THEN ss[lo]
    ELSE JoinRange(ss, lo, k - 1) \o JoinRange(ss, lo + 2^(k - 1), k - 1)

\* the strings of ss one after the other
Join(ss) ==
    CHOOSE r \in { JoinRange(b, 1, k) : b \in { ss }, k \in { Levels(Len(ss)) } } : TRUE

----------------------------------------------------------------------------
(* Characters. A character is a string of one character. A character that  *)
(* a string cannot hold is written by its name, "U+2028"; in a longer       *)
(* string U+ and four hexadecimal digits stand for that one character. The  *)
(* alphabet is Latin-1 and the characters named below.                      *)

AsciiLower == "abcdefghijklmnopqrstuvwxyz"
AsciiUpper == "ABCDEFGHIJKLMNOPQRSTUVWXYZ"
AsciiDigits == "0123456789"

\* the characters of a string of single characters
CharSet(s) == { SubSeq(s, i, i) : i \in 1..Len(s) }

\* the letters of Latin-1 that have both cases in it, lower and upper
LowerLetters == AsciiLower \o "àáâãäåæçèéêëìíîïðñòóôõöøùúûüýþ"
UpperLetters == AsciiUpper \o "ÀÁÂÃÄÅÆÇÈÉÊËÌÍÎÏÐÑÒÓÔÕÖØÙÚÛÜÝÞ"

\* unicode.ToUpper where it changes a character: << from, to >>
UpperPairs ==
    { << SubSeq(LowerLetters, i, i), SubSeq(UpperLetters, i, i) >> :
          i \in 1..Len(LowerLetters) }
      \cup { << "ÿ", "U+0178" >>, << "µ", "Μ" >>, << "μ", "Μ" >>,
              << "U+017F", "S" >>, << "U+0131", "I" >> }

\* unicode.ToLower where it changes a character: << from, to >>
LowerPairs ==
    { << SubSeq(UpperLetters, i, i), SubSeq(LowerLetters, i, i) >> :
          i \in 1..Len(UpperLetters) }
      \cup { << "U+0178", "ÿ" >>, << "Μ", "μ" >>, << "ẞ", "ß" >>,
              << "U+212A", "k" >>, << "U+212B", "å" >>, << "U+0130", "i" >> }

UpperMap == [c \in { p[1] : p \in UpperPairs } |-> (CHOOSE p \in UpperPairs : p[1] = c)[2]]
LowerMap == [c \in { p[1] : p \in LowerPairs } |-> (CHOOSE p \in LowerPairs : p[1] = c)[2]]

\* strings.ToUpper on one character
UpperChar(c) == IF c \in DOMAIN UpperMap THEN UpperMap[c] ELSE c

\* strings.ToLower on one character
LowerChar(c) == IF c \in DOMAIN LowerMap THEN LowerMap[c] ELSE c

\* unicode.IsSpace, the white space strings.TrimSpace cuts off: the blank,
\* \t, \n, \r, \f, the vertical tab U+000B, U+0085, U+00A0, U+1680 and the
\* spaces of U+2000 and above
WhiteSpace ==
    { " ", "\t", "\n", "\r", "\f", "", "", " ", " ",
      "U+2000", "U+2001", "U+2002", "U+2003", "U+2004", "U+2005", "U+2006", "U+2007",
      "U+2008", "U+2009", "U+200A", "U+2028", "U+2029", "U+202F", "U+205F", "U+3000" }

HexDigits == CharSet(AsciiDigits \o "ABCDEF")

\* whether a character name starts at place i of the string s
NameAt(s, i) ==
    /\ i + 5 <= Len(s)
    /\ SubSeq(s, i, i + 1) = "U+"
    /\ \A j \in 2..5 : SubSeq(s, i + j, i + j) \in HexDigits

\* the places of s where a character starts: those that are not within a
\* character name, which takes six places
RuneStarts(s) ==
    { i \in 1..Len(s) : \A j \in 1..5 : ~(i - j >= 1 /\ NameAt(s, i - j)) }

\* the character that starts at place i of s
RuneAt(s, i) == IF NameAt(s, i) THEN SubSeq(s, i, i + 5) ELSE SubSeq(s, i, i)

\* the characters of a string, one after the other
Runes(s) ==
    CHOOSE r \in {
        << >> \o [k \in 1..Cardinality(starts) |->
                     RuneAt(s, CHOOSE i \in starts :
                                   Cardinality({ j \in starts : j <= i }) = k)] :
        starts \in { RuneStarts(s) } } : TRUE

----------------------------------------------------------------------------
(* Flag values as token sequences: strings.Split and strings.TrimSpace *)

RECURSIVE SplitFrom(_, _, _)
SplitFrom(s, i, cur) ==
    IF i > Len(s) THEN << cur >>
    ELSE IF s[i] = "," THEN << cur >> \o SplitFrom(s, i + 1, << >>)
    ELSE SplitFrom(s, i + 1, Append(cur, s[i]))

\* strings.Split(s, ","): one part more than there are separators
StringsSplit(s) == SplitFrom(s, 1, << >>)

\* the places of s that hold no white space
Inked(s) == { i \in 1..Len(s) : s[i] \notin WhiteSpace }

\* strings.TrimSpace, the white space s opens with
TrimLeft(s) ==
    IF Inked(s) = {} THEN << >>
    ELSE SubSeq(s, CHOOSE i \in Inked(s) : \A j \in Inked(s) : i <= j, Len(s))

\* strings.TrimSpace, the white space s ends with
TrimRight(s) ==
    IF Inked(s) = {} THEN << >>
    ELSE SubSeq(s, 1, CHOOSE i \in Inked(s) : \A j \in Inked(s) : j <= i)

\* strings.TrimSpace(p)
TrimSpace(s) == TrimRight(TrimLeft(s))

\* the string a trimmed part denotes: its tokens one after the other, the
\* blanks between two runs of characters included
NameOf(p) == Join(p)

\* the flag value with the given parts, joined by ","
RECURSIVE JoinCsv(_)
JoinCsv(parts) ==
    IF parts = << >> THEN << >>
    ELSE IF Len(parts) = 1 THEN parts[1]
    ELSE parts[1] \o << "," >> \o JoinCsv(Tail(parts))

----------------------------------------------------------------------------
(* GetDefaultProfiles *)

\* append the members of lst not yet in acc, in order (the seen-map loops)
RECURSIVE AppendUnseen(_, _)
AppendUnseen(acc, lst) ==
    IF lst = << >> THEN acc
    ELSE IF Head(lst) \in Range(acc) THEN AppendUnseen(acc, Tail(lst))
    ELSE AppendUnseen(Append(acc, Head(lst)), Tail(lst))

BaseProfiles ==
    ("podLogs" :> << "ContainerLogV2", "ContainerLog", "KubeEvents",
                     "KubeMonAgentEvents", "Syslog" >>)
 @@ ("inventory" :> << "KubePodInventory", "KubeNodeInventory", "KubeServices",
                       "KubePVInventory", "ContainerInventory",
                       "ContainerImageInventory", "ContainerNodeInventory",
                       "KubeHealth" >>)
 @@ ("metrics" :> << "InsightsMetrics", "Perf", "Heartbeat" >>)
 @@ ("audit" :> << "AKSControlPlane", "AKSAudit", "AKSAuditAdmin" >>)

\* the alias aks-debug = podLogs + inventory + metrics, built with a seen map
Combined ==
    AppendUnseen(AppendUnseen(AppendUnseen(<< >>, BaseProfiles["podLogs"]),
                              BaseProfiles["inventory"]),
                 BaseProfiles["metrics"])

GetDefaultProfiles == ("aks-debug" :> Combined) @@ BaseProfiles

----------------------------------------------------------------------------
(* Gatherer.resolveTables *)

\* the non-empty trimmed parts of a flag value, in order
RECURSIVE TrimmedParts(_)
TrimmedParts(parts) ==
    IF parts = << >> THEN << >>
    ELSE LET p == TrimSpace(Head(parts))
         IN  (IF p # << >> THEN << NameOf(p) >> ELSE << >>) \o TrimmedParts(Tail(parts))

\* lines 176-186: a non-empty --tables value replaces the incoming list
FilterOverride(c, tabs) ==
    IF c.TableFilter # << >> THEN TrimmedParts(StringsSplit(c.TableFilter)) ELSE tabs

\* a union that forgets the seen map
RECURSIVE ProfileUnionNoSeen(_, _)
ProfileUnionNoSeen(acc, profs) ==
    IF profs = << >> THEN acc
    ELSE LET p == Head(profs)
         IN  ProfileUnionNoSeen(
                 IF p \in DOMAIN GetDefaultProfiles
                 THEN acc \o GetDefaultProfiles[p] ELSE acc,
                 Tail(profs))

\* a union that gives up at the first unknown name
RECURSIVE ProfileUnionStopsAtUnknown(_, _)
ProfileUnionStopsAtUnknown(acc, profs) ==
    IF profs = << >> THEN acc
    ELSE LET p == Head(profs)
         IN  IF p \in DOMAIN GetDefaultProfiles
             THEN ProfileUnionStopsAtUnknown(AppendUnseen(acc, GetDefaultProfiles[p]),
                                             Tail(profs))
             ELSE acc

\* lines 194-209: union of the known profiles named, unknown names skipped
RECURSIVE ProfileUnion(_, _)
ProfileUnion(acc, profs) ==
    IF profs = << >> THEN acc
    ELSE LET p == Head(profs)
         IN  ProfileUnion(
                 IF p \in DOMAIN GetDefaultProfiles
                 THEN AppendUnseen(acc, GetDefaultProfiles[p]) ELSE acc,
                 Tail(profs))

\* a profiles branch that does not look at the list --tables left
ProfilesStepAlways(c, tabs) ==
    IF c.Profiles # << >> /\ ~c.AllTables
    THEN ProfileUnion(tabs, TrimmedParts(StringsSplit(c.Profiles)))
    ELSE tabs

\* lines 191-210
ProfilesStep(c, tabs) ==
    IF Len(tabs) = 0 /\ c.Profiles # << >> /\ ~c.AllTables
    THEN ProfileUnion(tabs, TrimmedParts(StringsSplit(c.Profiles)))
    ELSE tabs

\* a default that is the podLogs profile alone
DefaultStepPodLogs(c, tabs) ==
    IF Len(tabs) = 0 /\ ~c.AllTables
    THEN AppendUnseen(tabs, GetDefaultProfiles["podLogs"])
    ELSE tabs

\* lines 213-223
DefaultStep(c, tabs) ==
    IF Len(tabs) = 0 /\ ~c.AllTables
    THEN AppendUnseen(tabs, GetDefaultProfiles["aks-debug"])
    ELSE tabs

resolveTables(c, tabs) == DefaultStep(c, ProfilesStep(c, FilterOverride(c, tabs)))

----------------------------------------------------------------------------
(* Durations as text: utils.ISO8601Duration, utils.ParseISO8601ToDuration   *)
(* and time.ParseDuration. A value is a sequence of tokens: a run of digits *)
(* (its number) or one other character.                                    *)

Num(n) == [digits |-> TRUE, n |-> n, c |-> "", z |-> 0]
Ch(c) == [digits |-> FALSE, n |-> 0, c |-> c, z |-> 0]

\* a run of digits that opens with z zeros before the digits of n: "007" is
\* Zeros(2, 7), "00" is Zeros(1, 0); Num(n) is the run without such zeros
Zeros(z, n) == [digits |-> TRUE, n |-> n, c |-> "", z |-> z]

\* strings.ToUpper
ToUpper(s) == [i \in 1..Len(s) |-> IF s[i].digits THEN s[i] ELSE Ch(UpperChar(s[i].c))]

\* strings.TrimSpace on a token sequence
TrimBlanks(s) ==
    LET inked == { i \in 1..Len(s) : s[i].digits \/ s[i].c \notin WhiteSpace }
    IN  IF inked = {} THEN << >>
        ELSE SubSeq(s, CHOOSE i \in inked : \A j \in inked : i <= j,
                       CHOOSE i \in inked : \A j \in inked : j <= i)

\* strings.HasPrefix(s, "P")
HasPrefixP(s) == s # << >> /\ s[1] = Ch("P")

\* strings.Index(s, "T"), 0 for -1
IndexT(s) ==
    IF \E i \in 1..Len(s) : s[i] = Ch("T")
    THEN CHOOSE i \in 1..Len(s) : s[i] = Ch("T") /\ \A j \in 1..(i - 1) : s[j] # Ch("T")
    ELSE 0

----------------------------------------------------------------------------
(* time.ParseDuration: a sign, then numbers with their units, each number  *)
(* with or without a fraction after a point.                                *)
(* A time.Duration counts nanoseconds in 64 bits. Its size is held here as  *)
(* whole hours h, milliseconds ms below the hour and nanoseconds ns below   *)
(* the millisecond.                                                         *)

\* nanoseconds in a millisecond
Million == 1000000

NoTime == [h |-> 0, ms |-> 0, ns |-> 0]

\* 1<<63 nanoseconds
Limit == [h |-> 2562047, ms |-> 2836854, ns |-> 775808]

\* the size with the carries made
Carry(h, ms, ns) ==
    [h  |-> h + (ms + ns \div Million) \div Hour,
     ms |-> (ms + ns \div Million) % Hour,
     ns |-> ns % Million]

Plus(a, b) == Carry(a.h + b.h, a.ms + b.ms, a.ns + b.ns)

Exceeds(a, b) ==
    \/ a.h > b.h
    \/ a.h = b.h /\ a.ms > b.ms
    \/ a.h = b.h /\ a.ms = b.ms /\ a.ns > b.ns

\* unitMap: the unit a run of characters names, "" for an unknown unit
UnitOf(u) ==
    IF u = << "h" >> THEN "h" ELSE IF u = << "m" >> THEN "m"
    ELSE IF u = << "s" >> THEN "s" ELSE IF u = << "m", "s" >> THEN "ms"
    ELSE IF u \in { << "u", "s" >>, << "µ", "s" >>, << "μ", "s" >> } THEN "us"
    ELSE IF u = << "n", "s" >> THEN "ns" ELSE ""

\* v *= unit
TimesUnit(v, unit) ==
    CASE unit = "h"  -> Carry(v, 0, 0)
      [] unit = "m"  -> Carry(v \div 60, (v % 60) * Minute, 0)
      [] unit = "s"  -> Carry(v \div 3600, (v % 3600) * Second, 0)
      [] unit = "ms" -> Carry(v \div Hour, v % Hour, 0)
      [] unit = "us" -> Carry((v \div 1000) \div Hour, (v \div 1000) % Hour,
                              (v % 1000) * 1000)
      [] unit = "ns" -> Carry((v \div Million) \div Hour, (v \div Million) % Hour,
                              v % Million)

\* 1<<63 / unit where a run of digits below 2^31 can pass it
MostOf(unit) ==
    CASE unit = "h" -> 2562047
      [] unit = "m" -> 153722867
      [] OTHER      -> 2147483647

\* the unit in nanoseconds is UnitFactor(unit) * 10^UnitPower(unit)
UnitFactor(unit) == CASE unit = "h" -> 36 [] unit = "m" -> 6 [] OTHER -> 1

UnitPower(unit) ==
    CASE unit = "h" -> 11 [] unit = "m" -> 10 [] unit = "s" -> 9
      [] unit = "ms" -> 6 [] unit = "us" -> 3 [] unit = "ns" -> 0

\* the decimal digits of n, the first one first
RECURSIVE DigitsOf(_)
DigitsOf(n) == IF n < 10 THEN << n >> ELSE Append(DigitsOf(n \div 10), n % 10)

\* the digits of ds[1..n] * c + carry
RECURSIVE TimesDigits(_, _, _, _)
TimesDigits(ds, n, c, carry) ==
    IF n = 0 THEN (IF carry = 0 THEN << >> ELSE DigitsOf(carry))
    ELSE Append(TimesDigits(ds, n - 1, c, (ds[n] * c + carry) \div 10),
                (ds[n] * c + carry) % 10)

\* the number the digits ds[m..n] write
RECURSIVE ValueOf(_, _, _)
ValueOf(ds, m, n) ==
    IF n < m THEN 0 ELSE 10 * ValueOf(ds, m, n - 1) + ds[n]

\* float64, as far as time.ParseDuration and Duration.Seconds compute in it:
\* a quotient, a product and a sum of positive numbers, each rounded to 53
\* bits, to the nearest and on a tie to the even one. A number too large for
\* an integer is the sequence of its bits, the highest first; a divisor is a
\* number of three limbs to the base 10^8, the highest first.
Mantissa == 53

LimbBase == 100000000

\* the number of bits of n, for n below 2^31
BitLength(n) == IF n = 0 THEN 0 ELSE CHOOSE k \in 1..31 : n \div 2^(k - 1) = 1

\* the bits of n
BitsOf(n) ==
    CHOOSE b \in { << >> \o [i \in 1..len |-> (n \div 2^(len - i)) % 2] :
                   len \in { BitLength(n) } } : TRUE

\* 10^k in limbs, k up to 22
Pow10Limbs(k) ==
    << IF k >= 16 THEN 10^(k - 16) ELSE 0,
       IF k >= 8 /\ k < 16 THEN 10^(k - 8) ELSE 0,
       IF k < 8 THEN 10^k ELSE 0 >>

NoLimbs == << 0, 0, 0 >>

\* 2 * r + b in limbs
TwicePlus(r, b) ==
    LET c0 == 2 * r[3] + b
        c1 == 2 * r[2] + c0 \div LimbBase
    IN  << 2 * r[1] + c1 \div LimbBase, c1 % LimbBase, c0 % LimbBase >>

\* a >= b in limbs
AtLeast(a, b) ==
    \/ a[1] > b[1]
    \/ a[1] = b[1] /\ a[2] > b[2]
    \/ a[1] = b[1] /\ a[2] = b[2] /\ a[3] >= b[3]

\* a - b in limbs, for a >= b
LessLimbs(a, b) ==
    LET b0 == IF a[3] < b[3] THEN 1 ELSE 0
        b1 == IF a[2] - b0 < b[2] THEN 1 ELSE 0
    IN  << a[1] - b[1] - b1, a[2] - b0 - b[2] + b1 * LimbBase,
           a[3] - b[3] + b0 * LimbBase >>

\* one step of the long division by D: the bit b of the dividend comes in,
\* a bit of the quotient comes out, r is the remainder
DivStep(r, b, D) ==
    CHOOSE x \in { IF AtLeast(t, D) THEN [bit |-> 1, r |-> LessLimbs(t, D)]
                   ELSE [bit |-> 0, r |-> t] : t \in { TwicePlus(r, b) } } : TRUE

\* the bit of the dividend N at place p; behind the point there are zeros
FedBit(N, p) == IF p <= Len(N) THEN N[p] ELSE 0

\* 10^22, the largest divisor, is below 2^74: the first 1 of a quotient N / D
\* comes at place Len(N) + 74 at the latest
MaxShift == 74

\* the long division by D over the places of the dividend N from lo on, 2^k
\* of them and none behind hi, from the remainder s.r on: s.bits takes the
\* bits of the quotient
RECURSIVE DivRange(_, _, _, _, _, _)
DivRange(N, D, s, lo, hi, k) ==
    IF lo > hi THEN s
    ELSE IF k = 0
    THEN CHOOSE x \in { [bits |-> Append(s.bits, t.bit), r |-> t.r] :
                        t \in { DivStep(s.r, FedBit(N, lo), D) } } : TRUE
    ELSE CHOOSE x \in { DivRange(N, D, left, lo + 2^(k - 1), hi, k - 1) :
                        left \in { DivRange(N, D, s, lo, hi, k - 1) } } : TRUE

\* the long division over the places lo..hi
Divided(N, D, s, lo, hi) ==
    CHOOSE x \in { DivRange(N, D, s, lo, hi, k) : k \in { Levels(hi - lo + 1) } } : TRUE

\* the mantissa keep raised by one in its last place; zeros are the places
\* of its zeros, and with none of them the raised mantissa is one bit longer
RaisedBits(m, keep, zeros) ==
    IF zeros = {}
    THEN [m |-> << 1 >> \o [i \in 1..(Mantissa - 1) |-> 0], drop |-> Len(m) - Mantissa + 1]
    ELSE CHOOSE x \in {
             [m |-> SubSeq(keep, 1, last - 1) \o << 1 >>
                        \o [i \in 1..(Mantissa - last) |-> 0],
              drop |-> Len(m) - Mantissa] :
             last \in { CHOOSE i \in zeros : \A j \in zeros : j <= i } } : TRUE

\* to the nearest, on a tie to the even one: up when the first bit left out
\* is 1 and either something follows it or the last bit kept is 1
RoundsUp(m, sticky) ==
    /\ m[Mantissa + 1] = 1
    /\ \/ sticky
       \/ \E i \in (Mantissa + 2)..Len(m) : m[i] = 1
       \/ m[Mantissa] = 1

CutBits(m, keep, sticky) ==
    IF ~RoundsUp(m, sticky) THEN [m |-> keep, drop |-> Len(m) - Mantissa]
    ELSE CHOOSE x \in { RaisedBits(m, keep, zeros) :
             zeros \in { { i \in 1..Mantissa : keep[i] = 0 } } } : TRUE

\* the bits m, the first of them 1, cut to 53 and rounded; sticky says that
\* something below the last bit of m is left out; drop is the number of bits
\* cut off
RoundBits(m, sticky) ==
    IF Len(m) <= Mantissa THEN [m |-> m, drop |-> 0]
    ELSE CHOOSE x \in { CutBits(m, keep, sticky) : keep \in { SubSeq(m, 1, Mantissa) } } :
             TRUE

NoQuotient == [bits |-> << >>, r |-> NoLimbs]

\* the place of the first 1
FirstOne(bits) ==
    CHOOSE p \in 1..Len(bits) : bits[p] = 1 /\ \A j \in 1..(p - 1) : bits[j] = 0

\* the quotient q, taken so far that its first 1 has more bits behind it than
\* the mantissa holds, rounded with the remainder as the rest
QuotientOf(N, q) ==
    CHOOSE x \in { [m |-> r.m, e |-> Len(N) - Len(q.bits) + r.drop] :
        r \in { RoundBits(m, q.r # NoLimbs) :
                  m \in { SubSeq(q.bits, FirstOne(q.bits), Len(q.bits)) } } } : TRUE

\* float64(N) / float64(D) for N > 0: the number m * 2^e
Quotient(N, D) ==
    CHOOSE x \in { QuotientOf(N, q) :
        q \in { Divided(N, D, NoQuotient, 1, Len(N) + MaxShift + Mantissa) } } : TRUE

\* a * f over the 2^k places of a from lo on, none behind its end, from the
\* last bit to the first, s.carry coming in from behind: s.bits takes the
\* bits. f and the carry stay below 2^31.
RECURSIVE TimesRange(_, _, _, _, _)
TimesRange(a, f, s, lo, k) ==
    IF lo > Len(a) THEN s
    ELSE IF k = 0
    THEN CHOOSE x \in { [bits  |-> << low % 2 >> \o s.bits,
                         carry |-> (f \div 2) * a[lo] + s.carry \div 2 + low \div 2] :
                        low \in { (f % 2) * a[lo] + (s.carry % 2) } } : TRUE
    ELSE CHOOSE x \in { TimesRange(a, f, right, lo, k - 1) :
                        right \in { TimesRange(a, f, s, lo + 2^(k - 1), k - 1) } } : TRUE

\* the bits of a * f + carry, for carry <= f
TimesBits(a, f, carry) ==
    CHOOSE x \in { BitsOf(s.carry) \o s.bits :
        s \in { TimesRange(a, f, [bits |-> << >>, carry |-> carry], 1, k) :
                 k \in { Levels(Len(a)) } } } : TRUE

\* float64(f) * q for f > 0
Product(f, q) ==
    CHOOSE x \in { [m |-> r.m, e |-> q.e + r.drop] :
        r \in { RoundBits(p, FALSE) : p \in { TimesBits(q.m, f, 0) } } } : TRUE

\* a + x for the whole number a > 0 and x below 1
FloatSum(a, x) ==
    CHOOSE y \in { [m |-> r.m, e |-> x.e + r.drop] :
        r \in { RoundBits(m, FALSE) :
                  m \in { a \o [i \in 1..(0 - x.e - Len(x.m)) |-> 0] \o x.m } } } : TRUE

\* uint64(x), int64(x): the bits of the whole part of x
WholeBits(x) ==
    IF x.e >= 0 THEN x.m \o [i \in 1..x.e |-> 0]
    ELSE IF Len(x.m) + x.e <= 0 THEN << >>
    ELSE SubSeq(x.m, 1, Len(x.m) + x.e)

\* the size t, doubled for each of the 2^k bits of b from lo on and the bit
\* added
RECURSIVE NanosRange(_, _, _, _)
NanosRange(b, t, lo, k) ==
    IF lo > Len(b) THEN t
    ELSE IF k = 0
    THEN CHOOSE x \in { Carry(2 * u.h, 2 * u.ms, 2 * u.ns + b[lo]) : u \in { t } } : TRUE
    ELSE CHOOSE x \in { NanosRange(b, left, lo + 2^(k - 1), k - 1) :
                        left \in { NanosRange(b, t, lo, k - 1) } } : TRUE

\* the size of b nanoseconds
NanosOf(b) == CHOOSE x \in { NanosRange(b, NoTime, 1, k) : k \in { Levels(Len(b)) } } : TRUE

\* the clock c, doubled for each of the 2^k bits of b from lo on and the bit
\* added
RECURSIVE ClockRange(_, _, _, _)
ClockRange(b, c, lo, k) ==
    IF lo > Len(b) THEN c
    ELSE IF k = 0
    THEN CHOOSE x \in { [h |-> 2 * u.h + (2 * u.s + b[lo]) \div 3600,
                         s |-> (2 * u.s + b[lo]) % 3600] : u \in { c } } : TRUE
    ELSE CHOOSE x \in { ClockRange(b, left, lo + 2^(k - 1), k - 1) :
                        left \in { ClockRange(b, c, lo, k - 1) } } : TRUE

\* b seconds as hours h and seconds s below the hour
ClockOf(b) ==
    CHOOSE x \in { ClockRange(b, [h |-> 0, s |-> 0], 1, k) : k \in { Levels(Len(b)) } } : TRUE

\* the size of the nanoseconds the digits q write
SizeOfDigits(q) ==
    Carry(0, ValueOf(q, 1, Len(q) - 6),
             ValueOf(q, (IF Len(q) > 6 THEN Len(q) - 6 ELSE 0) + 1, Len(q)))

\* the fraction of the digits ds, no more of them than the unit has powers of
\* ten: quotient and product are whole numbers below 2^53, float64 holds them
ExactFraction(f, ds, unit) ==
    CHOOSE r \in { SizeOfDigits(q) :
        q \in { prod \o [i \in 1..(UnitPower(unit) - (f.z + Len(ds))) |-> 0] :
                  prod \in { TimesDigits(ds, Len(ds), UnitFactor(unit), 0) } } } : TRUE

\* the fraction of k digits more than the unit has powers of ten: the
\* quotient unit / scale is rounded, then its product with f, then cut
RoundedFraction(f, unit, k) ==
    CHOOSE r \in { NanosOf(w) :
        w \in { WholeBits(p) :
            p \in { Product(f.n, q) :
                q \in { Quotient(N, Pow10Limbs(k)) :
                          N \in { BitsOf(UnitFactor(unit)) } } } } } : TRUE

\* from 23 digits on the product is below 1, as f is below 2^31
FractionOf(f, ds, unit) ==
    IF f.z + Len(ds) <= UnitPower(unit) THEN ExactFraction(f, ds, unit)
    ELSE IF f.z + Len(ds) >= 23 THEN NoTime
    ELSE RoundedFraction(f, unit, f.z + Len(ds) - UnitPower(unit))

\* v += uint64(float64(f) * (float64(unit) / scale)) for the digits f after
\* the point, scale = 10^(number of digits), skipped when f is 0
Fraction(f, unit) ==
    IF f.n = 0 THEN NoTime
    ELSE CHOOSE r \in { FractionOf(f, ds, unit) : ds \in { DigitsOf(f.n) } } : TRUE

\* time.ParseDuration gives up
NoParse == [ok |-> FALSE, d |-> NoTime]

\* the number at token i: leadingInt and, behind a point, leadingFraction.
\* pre and post say whether there are digits before and after the point, v
\* is the number before it, f the run of digits after it, k the place behind
\* the number
NumberAt(s, i) ==
    CHOOSE n \in {
        [pre  |-> s[i].digits,
         post |-> j + 1 <= Len(s) /\ s[j] = Ch(".") /\ s[j + 1].digits,
         v    |-> IF s[i].digits THEN s[i].n ELSE 0,
         f    |-> IF j + 1 <= Len(s) /\ s[j] = Ch(".") /\ s[j + 1].digits
                  THEN s[j + 1] ELSE Num(0),
         k    |-> IF j + 1 <= Len(s) /\ s[j] = Ch(".") /\ s[j + 1].digits THEN j + 2
                  ELSE IF j <= Len(s) /\ s[j] = Ch(".") THEN j + 1 ELSE j] :
        j \in { IF s[i].digits THEN i + 1 ELSE i } } : TRUE

\* the unit runs from place k up to the next digit or point
UnitEnd(s, k) ==
    IF \E x \in k..Len(s) : s[x].digits \/ s[x] = Ch(".")
    THEN CHOOSE x \in k..Len(s) :
             /\ s[x].digits \/ s[x] = Ch(".")
             /\ \A y \in k..(x - 1) : ~(s[y].digits \/ s[y] = Ch("."))
    ELSE Len(s) + 1

\* v *= unit, and the fraction added
TermOf(n, unit) ==
    IF n.post THEN Plus(TimesUnit(n.v, unit), Fraction(n.f, unit))
    ELSE TimesUnit(n.v, unit)

\* no number with a unit at the place
NoTerm == [ok |-> FALSE, v |-> NoTime, stop |-> 0]

\* a missing unit, an unknown unit, v > 1<<63 / unit, v > 1<<63 once the
\* fraction is added
WithUnit(n, stop, unit) ==
    IF stop = n.k \/ unit = "" THEN NoTerm
    ELSE IF n.v > MostOf(unit) THEN NoTerm
    ELSE CHOOSE t \in { IF Exceeds(v, Limit) THEN NoTerm
                        ELSE [ok |-> TRUE, v |-> v, stop |-> stop] :
                        v \in { TermOf(n, unit) } } : TRUE

\* the number n read, the unit behind it looked up in unitMap
Ended(s, n, stop) ==
    CHOOSE t \in { WithUnit(n, stop, unit) :
        unit \in { UnitOf([x \in 1..(stop - n.k) |-> s[n.k + x - 1].c]) } } : TRUE

\* no digits at all is an error
Read(s, n) ==
    IF ~n.pre /\ ~n.post THEN NoTerm
    ELSE CHOOSE t \in { Ended(s, n, stop) : stop \in { UnitEnd(s, n.k) } } : TRUE

\* one turn of the loop at token i: the number and its unit, v the size
\* they denote, stop the place behind them
TermAt(s, i) ==
    IF ~(s[i].digits \/ s[i] = Ch(".")) THEN NoTerm
    ELSE CHOOSE t \in { Read(s, n) : n \in { NumberAt(s, i) } } : TRUE

\* d += v; beyond 1<<63 the parse gives up, else the loop goes on at stop
RECURSIVE ParseFrom(_, _, _)
Added(s, t, d) ==
    IF ~t.ok \/ Exceeds(d, Limit) THEN NoParse ELSE ParseFrom(s, t.stop, d)

\* the loop of time.ParseDuration from token i on: the digits, the point and
\* the digits after it, then the unit; acc is d
ParseFrom(s, i, acc) ==
    IF i > Len(s) THEN [ok |-> TRUE, d |-> acc]
    ELSE CHOOSE r \in { Added(s, t, Plus(acc, t.v)) : t \in { TermAt(s, i) } } : TRUE

NoDuration == [ok |-> FALSE, neg |-> FALSE, h |-> 0, ms |-> 0, ns |-> 0]

\* the sign set on what the loop read; 1<<63 is a duration only below zero
Signed(neg, r) ==
    IF ~r.ok \/ (~neg /\ r.d = Limit) THEN NoDuration
    ELSE [ok |-> TRUE, neg |-> neg /\ r.d # NoTime, h |-> r.d.h, ms |-> r.d.ms, ns |-> r.d.ns]

\* behind the sign: "0" alone is a duration, "" is not
Unsigned(neg, rest) ==
    IF rest = << Num(0) >> THEN [ok |-> TRUE, neg |-> FALSE, h |-> 0, ms |-> 0, ns |-> 0]
    ELSE IF rest = << >> THEN NoDuration
    ELSE CHOOSE d \in { Signed(neg, r) : r \in { ParseFrom(rest, 1, NoTime) } } : TRUE

\* the sign a duration string opens with, and the rest
SignOff(s) ==
    IF s # << >> /\ s[1] \in { Ch("-"), Ch("+") }
    THEN [neg |-> s[1] = Ch("-"), rest |-> Tail(s)]
    ELSE [neg |-> FALSE, rest |-> s]

\* time.ParseDuration: neg says the duration is below zero, h, ms and ns are
\* its size
ParseDuration(s) ==
    CHOOSE d \in { Unsigned(x.neg, x.rest) : x \in { SignOff(s) } } : TRUE

\* a time.Duration in the milliseconds the runs count in; a part of a
\* millisecond counts as a whole one, so that the duration is 0, or above two
\* hours, or spans one window more, exactly when the code's is
Millis(d) ==
    (IF d.neg THEN 0 - 1 ELSE 1) * (d.h * Hour + d.ms + (IF d.ns > 0 THEN 1 ELSE 0))

\* float64(sec) + float64(nsec) / 1e9, cut to its whole part, for h hours and
\* sec seconds below the hour
SecondsSum(h, sec, nsec) ==
    CHOOSE c \in { ClockOf(w) :
        w \in { WholeBits(y) :
            y \in { FloatSum(a, x) :
                a \in { TimesBits(hb, 3600, sec) : hb \in { BitsOf(h) } },
                x \in { Quotient(N, Pow10Limbs(9)) : N \in { BitsOf(nsec) } } } } } : TRUE

\* int64(d.Seconds()) for the size of d, in hours h and seconds s below the
\* hour: sec := d / Second, nsec := d % Second
Seconds(d) ==
    IF (d.ms % Second = 0 /\ d.ns = 0) \/ (d.h = 0 /\ d.ms < Second)
    THEN [h |-> d.h, s |-> d.ms \div Second]
    ELSE SecondsSum(d.h, d.ms \div Second, (d.ms % Second) * Million + d.ns)

\* fmt.Sprintf("PT%dH%dM%dS", h, m, secRem)
SprintfPT(h, m, secRem) ==
    << Ch("P"), Ch("T"), Num(h), Ch("H"), Num(m), Ch("M"), Num(secRem), Ch("S") >>

NoISO == [ok |-> FALSE, iso |-> << >>]

\* h := secs / 3600, m := (secs % 3600) / 60, secRem := secs % 60
ISOOfClock(c) == [ok |-> TRUE, iso |-> SprintfPT(c.h, c.s \div 60, c.s % 60)]

\* secs := int64(d.Seconds()), made positive
ISOOfDuration(d) ==
    IF ~d.ok THEN NoISO ELSE CHOOSE r \in { ISOOfClock(c) : c \in { Seconds(d) } } : TRUE

\* "" is refused, a text that opens with P or p is returned as it is
ISOOfText(t) ==
    IF t = << >> THEN NoISO
    ELSE IF HasPrefixP(ToUpper(t)) THEN [ok |-> TRUE, iso |-> t]
    ELSE CHOOSE r \in { ISOOfDuration(d) : d \in { ParseDuration(t) } } : TRUE

\* utils.ISO8601Duration
ISO8601Duration(text) ==
    CHOOSE r \in { ISOOfText(t) : t \in { TrimBlanks(text) } } : TRUE

\* regexp (\d+)<letter> FindStringSubmatch: m[1], the leftmost run of digits
\* that the letter follows, << >> when there is none
FirstNumberBefore(part, letter) ==
    LET hits == { i \in 1..(Len(part) - 1) : part[i].digits /\ part[i + 1] = Ch(letter) }
    IN  IF hits = {} THEN << >>
        ELSE << part[CHOOSE i \in hits : \A j \in hits : i <= j] >>

\* v of v, _ := time.ParseDuration(...): nothing when the parse fails
Taken(d) == IF d.ok THEN [h |-> d.h, ms |-> d.ms, ns |-> d.ns] ELSE NoTime

\* v, _ := time.ParseDuration(m[1] + unit): the size of v, nothing when there
\* is no match
ValueWith(run, unit) ==
    IF run = << >> THEN NoTime
    ELSE CHOOSE v \in { Taken(d) : d \in { ParseDuration(run \o << Ch(unit) >>) } } : TRUE

\* the three matches of the part after T, (\d+)H, (\d+)M and (\d+)S, each
\* with its v of m[1] + "h", m[1] + "m" and m[1] + "s"
UnitValues(part) ==
    [u \in { "h", "m", "s" } |-> ValueWith(FirstNumberBefore(part, UpperChar(u)), u)]

\* a - b for sizes, a >= b
LessTime(a, b) == Carry(a.h - b.h, a.ms - b.ms, a.ns - b.ns)

\* total += v in 64 bits: the time.Duration of the sum t of up to three sizes
Wrapped(t) ==
    LET all == Plus(Limit, Limit)
    IN  IF ~Exceeds(t, Limit) /\ t # Limit
        THEN [neg |-> FALSE, h |-> t.h, ms |-> t.ms, ns |-> t.ns]
        ELSE IF Exceeds(all, t)
        THEN [neg |-> TRUE, h |-> LessTime(all, t).h, ms |-> LessTime(all, t).ms,
              ns |-> LessTime(all, t).ns]
        ELSE [neg |-> FALSE, h |-> LessTime(t, all).h, ms |-> LessTime(t, all).ms,
              ns |-> LessTime(t, all).ns]

NoISODuration == [ok |-> FALSE, d |-> [neg |-> FALSE, h |-> 0, ms |-> 0, ns |-> 0]]

\* a total that forgets the seconds
TotalNoSeconds(v) == [ok |-> TRUE, d |-> Wrapped(Plus(v["h"], v["m"]))]

\* total += v for the hours, the minutes and the seconds
Total(v) == [ok |-> TRUE, d |-> Wrapped(Plus(Plus(v["h"], v["m"]), v["s"]))]

\* the text u in upper case: it has to open with P and to hold a T, the part
\* after the first T is what the three patterns look at
PartAfterT(u) == SubSeq(u, IndexT(u) + 1, Len(u))

\* a parse that forgets the seconds
ParseISO8601NoSeconds(isoText) ==
    CHOOSE r \in {
        IF ~HasPrefixP(u) \/ IndexT(u) = 0 THEN NoISODuration
        ELSE CHOOSE t \in { TotalNoSeconds(v) : v \in { UnitValues(PartAfterT(u)) } } : TRUE :
        u \in { ToUpper(TrimBlanks(isoText)) } } : TRUE

\* utils.ParseISO8601ToDuration; d is the time.Duration returned
ParseISO8601ToDuration(isoText) ==
    CHOOSE r \in {
        IF ~HasPrefixP(u) \/ IndexT(u) = 0 THEN NoISODuration
        ELSE CHOOSE t \in { Total(v) : v \in { UnitValues(PartAfterT(u)) } } : TRUE :
        u \in { ToUpper(TrimBlanks(isoText)) } } : TRUE

----------------------------------------------------------------------------
(* utils.SafeFileName. A name is a sequence of characters.                  *)

\* the characters of the class [A-Za-z0-9_.\-]
ClassChars == CharSet(AsciiLower \o AsciiUpper \o AsciiDigits) \cup { "_", ".", "-" }

\* strings.TrimSpace on a name
TrimSpaceName(name) ==
    LET inked == { i \in 1..Len(name) : name[i] \notin WhiteSpace }
    IN  IF inked = {} THEN << >>
        ELSE SubSeq(name, CHOOSE i \in inked : \A j \in inked : i <= j,
                          CHOOSE i \in inked : \A j \in inked : j <= i)

\* strings.ReplaceAll(name, old, "_")
ReplaceAll(name, old) == [i \in 1..Len(name) |-> IF name[i] = old THEN "_" ELSE name[i]]

\* regexp [^A-Za-z0-9_.\-] ReplaceAllString(name, "_")
ReplaceOutside(name) ==
    [i \in 1..Len(name) |-> IF name[i] \in ClassChars THEN name[i] ELSE "_"]

Unnamed == << "u", "n", "n", "a", "m", "e", "d" >>

\* a SafeFileName that leaves the dots
SafeFileNameDotsKept(name) ==
    LET r == ReplaceOutside(ReplaceAll(TrimSpaceName(name), "/"))
    IN  IF r = << >> THEN Unnamed ELSE r

\* utils.SafeFileName
SafeFileName(name) ==
    LET r == ReplaceOutside(ReplaceAll(ReplaceAll(TrimSpaceName(name), "."), "/"))
    IN  IF r = << >> THEN Unnamed ELSE r

----------------------------------------------------------------------------
(* exportTableData: the window planner (lines 281-325) *)

\* lines 283-288: the duration the chunking uses, from the iso string Run
\* passes down and from the timespan of the configuration
DurOf(isoText, c) ==
    CHOOSE r \in {
        IF d2.ok THEN Millis(d2.d)
        ELSE CHOOSE x \in { IF d3.ok THEN Millis(d3) ELSE 0 :
                                d3 \in { ParseDuration(c.Timespan) } } : TRUE :
        d2 \in { ParseISO8601ToDuration(isoText) } } : TRUE

\* a start without the two-hour default
StartOfNoDefault(now, d) == now - d

\* lines 289-292: start := since.Add(-dur), two hours back when dur == 0
StartOf(now, d) == IF d = 0 THEN now - TwoHours ELSE now - d

\* a chunk policy that takes the hour at two hours already
ChunkOfStrict(d) == IF d < TwoHours THEN QuarterHour ELSE Hour

\* lines 295-298: chunk = 1h if dur > 2h else 15m
ChunkOf(d) == IF d <= TwoHours THEN QuarterHour ELSE Hour

\* lines 322-325: t1 := t0.Add(chunk), clipped to since
WindowEnd(t, chunk, now) == IF t + chunk > now THEN now ELSE t + chunk

\* line 321: the loop condition t0.Before(since)
MoreWindows(t, now) == t < now

----------------------------------------------------------------------------
(* Row timestamps: utils.ParseTimeRFC3339 and the sort comparator *)

\* the instant m written without a fraction, "...:00Z"
Whole(m) == [ok |-> TRUE, t |-> 2 * m, raw |-> 2 * m + 1]

\* an instant right after m written with a fraction, "...:00.0005Z":
\* later than Whole(m) as a time, earlier as a string ("." sorts before "Z")
Frac(m) == [ok |-> TRUE, t |-> 2 * m + 1, raw |-> 2 * m]

\* the empty string (a null TimeGenerated cell): first in byte order
NoStamp == [ok |-> FALSE, t |-> 0, raw |-> 0]

\* ParseTimeRFC3339: the zero time on failure
ParseTimeRFC3339(tm) ==
    IF tm.ok THEN [zero |-> FALSE, t |-> tm.t] ELSE [zero |-> TRUE, t |-> 0]

\* lines 456-463 and 495-502: the less function given to sort.Slice
Less(a, b) ==
    LET x == ParseTimeRFC3339(a.tm)
        y == ParseTimeRFC3339(b.tm)
    IN  IF x.zero \/ y.zero THEN a.tm.raw < b.tm.raw ELSE x.t < y.t

Swap(s, i, j) == [s EXCEPT ![i] = s[j], ![j] = s[i]]

\* sort.Slice on fewer than 12 elements is an insertion sort
RECURSIVE SiftDown(_, _)
SiftDown(s, j) ==
    IF j > 1 /\ Less(s[j], s[j - 1]) THEN SiftDown(Swap(s, j, j - 1), j - 1) ELSE s

RECURSIVE InsertFrom(_, _)
InsertFrom(s, i) == IF i > Len(s) THEN s ELSE InsertFrom(SiftDown(s, i), i + 1)

SortSlice(s) == InsertFrom(s, 2)

\* lines 470-473 and 508-511: Format(time.RFC3339Nano), the raw string when
\* the timestamp does not parse
FormatTs(tm) ==
    LET p == ParseTimeRFC3339(tm)
    IN  IF p.zero THEN tm
        ELSE [ok |-> TRUE, t |-> p.t,
              raw |-> IF p.t % 2 = 0 THEN p.t + 1 ELSE p.t - 1]

----------------------------------------------------------------------------
(* exportTableData: classifying and stitching the rows of one window *)

V2Cols == { "TimeGenerated", "PodNamespace", "PodName", "ContainerName",
            "LogSource", "LogMessage" }

EvCols == { "TimeGenerated", "Namespace", "Name", "Reason", "Message" }

\* lines 405-425: the v2rows collected from the rows of the window
V2Rows(c, table, cols, rows) ==
    IF c.StitchLogs /\ table = "ContainerLogV2" /\ V2Cols \subseteq cols
    THEN [i \in 1..Len(rows) |->
            [tm |-> rows[i].TimeGenerated, ns |-> rows[i].PodNamespace,
             pod |-> rows[i].PodName, cn |-> rows[i].ContainerName,
             src |-> rows[i].LogSource, msg |-> rows[i].LogMessage]]
    ELSE << >>

\* lines 426-445: the evrows collected from the rows of the window
EvRows(c, table, cols, rows) ==
    IF c.StitchLogs /\ c.StitchIncludeEvents /\ table = "KubeEvents"
       /\ EvCols \subseteq cols
    THEN [i \in 1..Len(rows) |->
            [tm |-> rows[i].TimeGenerated, ns |-> rows[i].Namespace,
             name |-> rows[i].Name, reason |-> rows[i].Reason,
             message |-> rows[i].Message]]
    ELSE << >>

\* line 487: strings.ReplaceAll(msg, "\r", "")
StripCR(msg) == SelectSeq(msg, LAMBDA c : c # "\r")

\* line 488: strings.ReplaceAll(msg, "\n", "\\n"), two characters for one
RECURSIVE EscapeNewlines(_)
EscapeNewlines(msg) ==
    IF msg = << >> THEN << >>
    ELSE (IF Head(msg) = "\n" THEN << "\\", "n" >> ELSE << Head(msg) >>)
            \o EscapeNewlines(Tail(msg))

\* line 512: strings.ReplaceAll(r.message, "\n", " ")
NewlinesToBlanks(msg) == [i \in 1..Len(msg) |-> IF msg[i] = "\n" THEN " " ELSE msg[i]]

\* getBuf / getEvt followed by buf.WriteString(line)
PutLine(m, k, line) ==
    IF k \in DOMAIN m THEN [m EXCEPT ![k] = Append(@, line)]
    ELSE m @@ (k :> << line >>)

\* line 489: one line of a container log
V2Line(r) ==
    [ts |-> FormatTs(r.tm), tag |-> r.src, msg |-> EscapeNewlines(StripCR(r.msg))]

\* line 512: one line of an event log
EvLine(r, ns) ==
    [ts |-> FormatTs(r.tm), ns |-> ns, name |-> r.name, reason |-> r.reason,
     msg |-> NewlinesToBlanks(r.message)]

\* an append loop without the skip of rows that name no container
RECURSIVE AppendV2NoSkip(_, _)
AppendV2NoSkip(m, rs) ==
    IF rs = << >> THEN m
    ELSE LET r == Head(rs)
         IN  AppendV2NoSkip(PutLine(m, [ns |-> r.ns, pod |-> r.pod, container |-> r.cn],
                                    V2Line(r)),
                            Tail(rs))

\* lines 465-492, over rows already sorted
RECURSIVE AppendV2(_, _)
AppendV2(m, rs) ==
    IF rs = << >> THEN m
    ELSE LET r == Head(rs)
         IN  IF r.ns = "" /\ r.pod = "" /\ r.cn = ""
             THEN AppendV2(m, Tail(rs))
             ELSE AppendV2(PutLine(m, [ns |-> r.ns, pod |-> r.pod, container |-> r.cn],
                                   V2Line(r)),
                           Tail(rs))

\* an append loop that keys an event by the namespace as the row gives it
RECURSIVE AppendEvRawNs(_, _)
AppendEvRawNs(m, rs) ==
    IF rs = << >> THEN m
    ELSE LET r == Head(rs)
         IN  AppendEvRawNs(PutLine(m, r.ns, EvLine(r, r.ns)), Tail(rs))

\* lines 503-515, over rows already sorted
RECURSIVE AppendEv(_, _)
AppendEv(m, rs) ==
    IF rs = << >> THEN m
    ELSE LET r  == Head(rs)
             ns == IF r.ns = "" THEN "default" ELSE r.ns
         IN  AppendEv(PutLine(m, ns, EvLine(r, ns)), Tail(rs))

\* lines 455-493
StitchV2(c, table, m, v2rows) ==
    IF c.StitchLogs /\ table = "ContainerLogV2" /\ Len(v2rows) > 0
    THEN AppendV2(m, SortSlice(v2rows))
    ELSE m

\* lines 494-516
StitchEv(c, table, m, evrows) ==
    IF c.StitchLogs /\ c.StitchIncludeEvents /\ table = "KubeEvents" /\ Len(evrows) > 0
    THEN AppendEv(m, SortSlice(evrows))
    ELSE m

----------------------------------------------------------------------------
(* The tar archive: utils.WriteFileToTar appends one entry *)

Entry(kind, dir, pod, file, idx, from, to, by, body) ==
    [kind |-> kind, dir |-> dir, pod |-> pod, file |-> file, idx |-> idx,
     from |-> from, to |-> to, by |-> by, body |-> body]

\* the names of the model that hold more than letters and digits
OddNames == { "", "a.d", "a_d", "unnamed" }

\* such a name character by character
Chars(id) ==
    CASE id = ""        -> << >>
      [] id = "a.d"     -> << "a", ".", "d" >>
      [] id = "a_d"     -> << "a", "_", "d" >>
      [] id = "unnamed" -> Unnamed

\* utils.SafeFileName on a name of the model; a name of letters and digits
\* alone passes every step of it unchanged and is kept as one word
SafeName(id) == IF id \in OddNames THEN SafeFileName(Chars(id)) ELSE << id >>

\* the name of an entry in the archive: kind stands for the fixed components
\* (tables/<dir>/schema.json, tables/<dir>/parts/<idx>-<from>_<to>.ndjson,
\* tables/<dir>/summary.json, namespaces/<dir>/pods/<pod>/<file>.log,
\* namespaces/<dir>/events/events.log), the table, namespace, pod and
\* container go through SafeFileName (lines 235, 258-260, 269)
Path(e) ==
    [kind |-> e.kind,
     dir  |-> IF e.kind \in { "meta", "index" } THEN << e.dir >> ELSE SafeName(e.dir),
     pod  |-> IF e.kind = "log" THEN SafeName(e.pod) ELSE << >>,
     file |-> IF e.kind = "log" THEN SafeName(e.file) ELSE << e.file >>,
     idx  |-> e.idx, from |-> e.from, to |-> e.to]

\* the sink takes one more write
Fits(sk) == ~sk.bounded \/ sk.room > 0

\* utils.WriteFileToTar with its error dropped (_ =): the entry is written when
\* the sink takes it and lost otherwise; a tar.Writer that failed keeps failing
WriteFileToTar(tw, sk, e) ==
    IF Fits(sk)
    THEN [tar |-> Append(tw, e),
          sink |-> IF sk.bounded THEN [sk EXCEPT !.room = @ - 1] ELSE sk]
    ELSE [tar |-> tw, sink |-> sk]

\* the writes of several entries in a row
RECURSIVE WriteAll(_, _, _)
WriteAll(tw, sk, es) ==
    IF es = << >> THEN [tar |-> tw, sink |-> sk]
    ELSE IF Fits(sk)
    THEN WriteAll(WriteFileToTar(tw, sk, Head(es)).tar,
                  WriteFileToTar(tw, sk, Head(es)).sink, Tail(es))
    ELSE [tar |-> tw, sink |-> sk]

\* metadata/workspace.json and metadata/azure.json (lines 130-145)
MetaEntries(tabs) ==
    << Entry("meta", "metadata", "", "workspace.json", 0, 0, 0, 0, Len(tabs)),
       Entry("meta", "metadata", "", "azure.json", 0, 0, 0, 0, 0) >>

\* tables/<safe>/schema.json (line 241)
SchemaEntry(table, i) == Entry("schema", table, "", "schema.json", 0, 0, 0, i, 0)

\* t.UTC().Format(time.RFC3339): the instant to the second, the rest cut off
FormatRFC3339(t) == t \div Second

\* a part named by the end of its window alone
PartEntryByEnd(table, i, idx, a, b, rows) ==
    Entry("part", table, "", "ndjson", idx, FormatRFC3339(b), FormatRFC3339(b), i, rows)

\* tables/<safe>/parts/<NNNN>-<t0>_<t1>.ndjson (lines 448-449)
PartEntry(table, i, idx, a, b, rows) ==
    Entry("part", table, "", "ndjson", idx, FormatRFC3339(a), FormatRFC3339(b), i, rows)

\* tables/<safe>/summary.json (lines 519-521)
SummaryEntry(table, i, n) == Entry("summary", table, "", "summary.json", 0, 0, 0, i, n)

\* namespaces/<ns>/pods/<pod>/<container>.log (lines 258-262)
LogEntry(k, lines) == Entry("log", k.ns, k.pod, k.container, 0, 0, 0, 0, lines)

\* namespaces/<ns>/events/events.log (lines 269-270)
EventsEntry(ns, lines) == Entry("events", ns, "", "events.log", 0, 0, 0, 0, lines)

\* index.json (lines 167-169)
IndexEntry(tabs) == Entry("index", "", "", "index.json", 0, 0, 0, 0, tabs)

\* the orders in which a range over a Go map may visit the keys S
Orderings(S) ==
    { o \in [1..Cardinality(S) -> S] : \A i, j \in DOMAIN o : i # j => o[i] # o[j] }

----------------------------------------------------------------------------
(* The log store: what one QueryWorkspace call over [a, b] may return *)

K1 == [ns |-> "ns1", pod |-> "pod1", container |-> "app"]

V2Row(tm, k, msg) ==
    [TimeGenerated |-> tm, PodNamespace |-> k.ns, PodName |-> k.pod,
     ContainerName |-> k.container, LogSource |-> "stdout", LogMessage |-> msg]

EvRow(tm, ns, msg) ==
    [TimeGenerated |-> tm, Namespace |-> ns, Name |-> "pod1", Reason |-> "Started",
     Message |-> msg]

\* the store holds rows at every tenth minute
Instants(a, b) ==
    { 10 * Minute * k : k \in ((a + 10 * Minute - 1) \div (10 * Minute))..((b - 1) \div (10 * Minute)) }

\* the TimeGenerated of a row of the store at the instant m, in the form the
\* store holds it in
Stamp(form, m) == IF form = "whole" THEN Whole(m) ELSE Frac(m)

\* a kind of container-log row the store holds: how its TimeGenerated is
\* written ("null" for a null cell), whom it belongs to, its message
LogRows(form, k, msg) == [form |-> form, key |-> k, msg |-> msg]

\* a kind of event row the store holds
EventRows(form, ns, msg) == [form |-> form, ns |-> ns, msg |-> msg]

\* the store of the runs: rows of ns1/pod1/app with whole, fractional and
\* null timestamps, rows that name no container, events without a namespace
\* and of the namespace default
PlainStore ==
    [logs   |-> { LogRows("whole", K1, << "m" >>), LogRows("frac", K1, << "m" >>),
                  LogRows("whole", [ns |-> "", pod |-> "", container |-> ""], << "m" >>),
                  LogRows("null", K1, << "m" >>) },
     events |-> { EventRows("whole", "", << "m" >>), EventRows("frac", "", << "m" >>),
                  EventRows("frac", "default", << "m" >>) }]

\* the rows a query of the table over the window [a, b) may return: rows whose
\* TimeGenerated lies in the window, and rows whose TimeGenerated is null
RowsOf(table, a, b) ==
    IF table = "ContainerLogV2"
    THEN { V2Row(Stamp(r.form, m), r.key, r.msg) :
             r \in { x \in store.logs : x.form # "null" }, m \in Instants(a, b) }
           \cup { V2Row(NoStamp, r.key, r.msg) : r \in { x \in store.logs : x.form = "null" } }
    ELSE IF table = "KubeEvents"
    THEN { EvRow(Stamp(r.form, m), r.ns, r.msg) : r \in store.events, m \in Instants(a, b) }
    ELSE { [TimeGenerated |-> Whole(m)] : m \in Instants(a, b) }

ColsOf(table) ==
    IF table = "ContainerLogV2" THEN V2Cols
    ELSE IF table = "KubeEvents" THEN EvCols
    ELSE { "TimeGenerated" }

----------------------------------------------------------------------------
(* Initial states *)

\* validateAndFixKQLQuery has not been called
NoCall == [pc |-> "idle", kqlQuery |-> "", attempt |-> 0, currentQuery |-> "",
           calls |-> << >>, query |-> "", err |-> FALSE]

Idle ==
    /\ iso = << >>
    /\ tables = << >>
    /\ ti = 0
    /\ schemas = << >>
    /\ since = 0
    /\ dur = 0
    /\ t0 = 0
    /\ rowsTotal = 0
    /\ chunkIndex = 0
    /\ tar = << >>
    /\ stitchedLogs = << >>
    /\ stitchedEvents = << >>
    /\ cancelled = FALSE
    /\ hist = << >>
    /\ clock = 1000 * Minute
    /\ outFile = FALSE
    /\ ret = ""
    /\ out = << >>
    /\ ai = NoCall

\* the resource ID of a workspace, as its parts between the slashes
WorkspaceOne ==
    << "", "subscriptions", "sub1", "resourceGroups", "rg1", "providers",
       "Microsoft.OperationalInsights", "workspaces", "ws1" >>

Config(filter, profiles, all, stitch, events, timespan) ==
    [TableFilter |-> filter, Profiles |-> profiles, AllTables |-> all,
     StitchLogs |-> stitch, StitchIncludeEvents |-> events, Timespan |-> timespan,
     WorkspaceID |-> WorkspaceOne]

\* a workspace that answers and an output file with room for everything
Healthy ==
    /\ workspace = [get |-> "guid", list |-> "ok"]
    /\ sink = [creatable |-> TRUE, bounded |-> FALSE, room |-> 0]

\* the runs of the export: an explicit --tables list over a short lookback
RunTables == { << "ContainerLogV2" >>, << "KubeEvents" >>, << "Perf" >> }

\* the --tables values of the runs: one table, or two (twice the same included)
RunFilters == { << a >> : a \in RunTables } \cup { << a, b >> : a, b \in RunTables }

\* the lookbacks of the runs: one window, and two windows with the last clipped
RunSpans == { << Num(10), Ch("m") >>, << Num(20), Ch("m") >> }

Init ==
    /\ Idle
    /\ \E parts \in RunFilters,
          stitch \in BOOLEAN, events \in BOOLEAN, span \in RunSpans :
          cfg = Config(JoinCsv(parts), << >>, FALSE, stitch, events, span)
    /\ pc = "start"
    /\ Healthy
    /\ arg = << >>
    /\ catalog = << >>
    /\ absent = {}
    /\ store = PlainStore
    /\ budget = MaxRows

----------------------------------------------------------------------------
(* Gatherer.Run *)

\* strings.ToLower on a part of a resource ID
ToLower(part) ==
    CHOOSE r \in { Join(<< >> \o [i \in 1..Len(cs) |-> LowerChar(cs[i])]) :
                    cs \in { Runes(part) } } : TRUE

\* the part after the last part named key among all but the last, "" if none
AfterLast(parts, key) ==
    LET at == { i \in 1..(Len(parts) - 1) : ToLower(parts[i]) = key }
    IN  IF at = {} THEN ""
        ELSE parts[(CHOOSE i \in at : \A j \in at : j <= i) + 1]

\* the part at place i of an id without the white space around the id
TrimmedPart(parts, i, cs) ==
    IF Len(parts) = 1 THEN NameOf(TrimSpace(cs))
    ELSE IF i = 1 THEN NameOf(TrimLeft(cs))
    ELSE NameOf(TrimRight(cs))

\* id = strings.TrimSpace(id), on the parts "/" divides the id into: the
\* white space before the first part and behind the last one goes
TrimmedID(parts) ==
    [i \in 1..Len(parts) |->
        IF 1 < i /\ i < Len(parts) THEN parts[i]
        ELSE CHOOSE r \in { TrimmedPart(parts, i, cs) : cs \in { Runes(parts[i]) } } : TRUE]

NoResource == [ok |-> FALSE, sub |-> "", rg |-> "", workspace |-> ""]

\* lines 1102-1105: each of the three has to be found
Found(sub, rg, ws) ==
    IF sub = "" \/ rg = "" \/ ws = "" THEN NoResource
    ELSE [ok |-> TRUE, sub |-> sub, rg |-> rg, workspace |-> ws]

\* lines 1078-1101 on the trimmed id
SplitID(id) ==
    IF id = << "" >> \/ Len(id) < 9 THEN NoResource
    ELSE CHOOSE r \in { Found(sub, rg, ws) :
            sub \in { AfterLast(id, "subscriptions") },
            rg \in { AfterLast(id, "resourcegroups") },
            ws \in { AfterLast(id, "workspaces") } } : TRUE

\* utils.ParseResourceID on the parts of strings.Split(id, "/")
ParseResourceID(parts) ==
    CHOOSE r \in { SplitID(id) : id \in { TrimmedID(parts) } } : TRUE

\* lines 57-113: the error Run returns before it resolves the tables, "" if none
ConfigError(c, w) ==
    IF ~ISO8601Duration(c.Timespan).ok THEN "invalid timespan"
    ELSE IF c.WorkspaceID = << "" >>
    THEN "could not determine workspace GUID"
    ELSE IF ~ParseResourceID(c.WorkspaceID).ok THEN "parse workspace-id"
    ELSE IF w.get = "error" THEN "get workspace"
    ELSE IF c.AllTables /\ w.list = "error" THEN "list tables"
    ELSE IF w.get # "guid" THEN "could not determine workspace GUID"
    ELSE ""

\* a Run that goes on after a configuration error
ValidateLenient ==
    /\ pc = "start"
    /\ iso' = ISO8601Duration(cfg.Timespan).iso
    /\ pc' = "validated"
    /\ UNCHANGED << dur, util, workspace, ai, store, schemas, sink, outFile, ret,
                    cfg, catalog, tables, ti, since, t0, rowsTotal, chunkIndex, tar,
                    stitchedLogs, stitchedEvents, cancelled, hist, clock, absent,
                    budget >>

\* lines 57-113: the timespan, the workspace ID, the workspace lookup
Validate ==
    /\ pc = "start"
    /\ iso' = ISO8601Duration(cfg.Timespan).iso
    /\ IF ConfigError(cfg, workspace) = ""
       THEN pc' = "validated" /\ ret' = ret
       ELSE pc' = "failed" /\ ret' = ConfigError(cfg, workspace)
    /\ UNCHANGED << dur, util, workspace, ai, store, schemas, sink, outFile,
                    cfg, catalog, tables, ti, since, t0, rowsTotal, chunkIndex, tar,
                    stitchedLogs, stitchedEvents, cancelled, hist, clock, absent,
                    budget >>

\* lines 90-115: the catalog is listed only under --all-tables
Resolve ==
    /\ pc = "validated"
    /\ tables' = resolveTables(cfg, IF cfg.AllTables THEN catalog ELSE << >>)
    /\ pc' = "resolved"
    /\ UNCHANGED << dur, util, workspace, ai, iso, store, schemas, sink, outFile, ret,
                    cfg, catalog, ti, since, t0, rowsTotal, chunkIndex, tar,
                    stitchedLogs, stitchedEvents, cancelled, hist, clock, absent,
                    budget >>

\* lines 117-145 and 228-231: the archive is created, the metadata written
OpenArchive ==
    /\ pc = "resolved"
    /\ IF sink.creatable
       THEN /\ outFile' = TRUE
            /\ tar' = WriteAll(<< >>, sink, MetaEntries(tables)).tar
            /\ sink' = WriteAll(<< >>, sink, MetaEntries(tables)).sink
            /\ ti' = 1
            /\ pc' = "export"
            /\ ret' = ret
       ELSE /\ ret' = "create out"
            /\ pc' = "failed"
            /\ UNCHANGED << outFile, tar, sink, ti >>
    /\ stitchedLogs' = << >>
    /\ stitchedEvents' = << >>
    /\ UNCHANGED << dur, util, workspace, ai, iso, store, schemas, cfg, catalog, tables, since, t0, rowsTotal,
                    chunkIndex, cancelled, hist, clock, absent, budget >>

\* a table whose schema cannot be fetched is left out altogether
BeginTableNeedsSchema ==
    /\ pc = "export"
    /\ ti <= Len(tables)
    /\ \E fetched \in (IF cancelled \/ tables[ti] \in absent THEN {FALSE} ELSE BOOLEAN) :
          /\ schemas' = Append(schemas, fetched)
          /\ clock' = clock + 1
          /\ since' = clock + 1
          /\ dur' = DurOf(iso, cfg)
          /\ t0' = StartOf(clock + 1, DurOf(iso, cfg))
          /\ tar' = IF fetched
                    THEN WriteFileToTar(tar, sink, SchemaEntry(tables[ti], ti)).tar
                    ELSE tar
          /\ sink' = IF fetched
                     THEN WriteFileToTar(tar, sink, SchemaEntry(tables[ti], ti)).sink
                     ELSE sink
          /\ IF fetched THEN pc' = "windows" /\ ti' = ti
                        ELSE pc' = "export" /\ ti' = ti + 1
    /\ rowsTotal' = 0
    /\ chunkIndex' = 0
    /\ UNCHANGED << util, workspace, ai, iso, store, outFile, ret,
                    cfg, catalog, tables, stitchedLogs, stitchedEvents,
                    cancelled, hist, absent, budget >>

\* lines 233-243 and 281-319: the next table of the range loop; the schema is
\* written when its fetch succeeds, then exportTableData sets up its loop.
\* time.Now() has moved on by a millisecond since the table before.
BeginTable ==
    /\ pc = "export"
    /\ ti <= Len(tables)
    /\ \E fetched \in (IF cancelled \/ tables[ti] \in absent THEN {FALSE} ELSE BOOLEAN) :
          /\ schemas' = Append(schemas, fetched)
          /\ clock' = clock + 1
          /\ since' = clock + 1
          /\ dur' = DurOf(iso, cfg)
          /\ t0' = StartOf(clock + 1, DurOf(iso, cfg))
          /\ tar' = IF fetched
                    THEN WriteFileToTar(tar, sink, SchemaEntry(tables[ti], ti)).tar
                    ELSE tar
          /\ sink' = IF fetched
                     THEN WriteFileToTar(tar, sink, SchemaEntry(tables[ti], ti)).sink
                     ELSE sink
    /\ rowsTotal' = 0
    /\ chunkIndex' = 0
    /\ pc' = "windows"
    /\ UNCHANGED << util, workspace, ai, iso, store, outFile, ret,
                    cfg, catalog, tables, ti, stitchedLogs, stitchedEvents,
                    cancelled, hist, absent, budget >>

\* one QueryWorkspace call as recorded in hist
Call(i, a, b, res, n) == [ti |-> i, t0 |-> a, t1 |-> b, res |-> res, rows |-> n]

\* a failed query that ends the whole run
WindowFailedAborts ==
    /\ pc = "windows"
    /\ MoreWindows(t0, since)
    /\ LET t1 == WindowEnd(t0, ChunkOf(dur), since)
       IN  hist' = Append(hist, Call(ti, t0, t1, "err", 0))
    /\ pc' = "done"
    /\ UNCHANGED << dur, util, workspace, ai, iso, store, schemas, sink, outFile, ret,
                    cfg, catalog, tables, ti, since, t0, rowsTotal, chunkIndex, tar,
                    stitchedLogs, stitchedEvents, cancelled, clock, absent, budget >>

\* a failed query that makes exportTableData return at once
WindowFailedReturns ==
    /\ pc = "windows"
    /\ MoreWindows(t0, since)
    /\ LET t1 == WindowEnd(t0, ChunkOf(dur), since)
       IN  hist' = Append(hist, Call(ti, t0, t1, "err", 0))
    /\ ti' = ti + 1
    /\ pc' = "export"
    /\ UNCHANGED << dur, util, workspace, ai, iso, store, schemas, sink, outFile, ret,
                    cfg, catalog, tables, since, t0, rowsTotal, chunkIndex, tar,
                    stitchedLogs, stitchedEvents, cancelled, clock, absent, budget >>

\* a failed query that throws away the rows counted so far
WindowFailedResets ==
    /\ pc = "windows"
    /\ MoreWindows(t0, since)
    /\ LET t1 == WindowEnd(t0, ChunkOf(dur), since)
       IN  hist' = Append(hist, Call(ti, t0, t1, "err", 0))
    /\ t0' = t0 + ChunkOf(dur)
    /\ rowsTotal' = 0
    /\ UNCHANGED << dur, util, workspace, ai, iso, store, schemas, sink, outFile, ret,
                    cfg, pc, catalog, tables, ti, since, chunkIndex, tar,
                    stitchedLogs, stitchedEvents, cancelled, clock, absent, budget >>

\* a failed query that is made again over the same window
WindowFailedRetries ==
    /\ pc = "windows"
    /\ MoreWindows(t0, since)
    /\ LET t1 == WindowEnd(t0, ChunkOf(dur), since)
       IN  hist' = Append(hist, Call(ti, t0, t1, "err", 0))
    /\ UNCHANGED << dur, util, workspace, ai, iso, store, schemas, sink, outFile, ret,
                    cfg, pc, catalog, tables, ti, since, t0, rowsTotal, chunkIndex, tar,
                    stitchedLogs, stitchedEvents, cancelled, clock, absent, budget >>

\* lines 321-335: the query of the window returns an error
WindowFailed ==
    /\ pc = "windows"
    /\ MoreWindows(t0, since)
    /\ LET t1 == WindowEnd(t0, ChunkOf(dur), since)
       IN  hist' = Append(hist, Call(ti, t0, t1, "err", 0))
    /\ t0' = t0 + ChunkOf(dur)
    /\ UNCHANGED << dur, util, workspace, ai, iso, store, schemas, sink, outFile, ret,
                    cfg, pc, catalog, tables, ti, since, rowsTotal, chunkIndex, tar,
                    stitchedLogs, stitchedEvents, cancelled, clock, absent, budget >>

\* the context is cancelled while the query of the window is in flight
WindowCancelled ==
    /\ pc = "windows"
    /\ MoreWindows(t0, since)
    /\ ~cancelled
    /\ cancelled' = TRUE
    /\ LET t1 == WindowEnd(t0, ChunkOf(dur), since)
       IN  hist' = Append(hist, Call(ti, t0, t1, "cancelled", 0))
    /\ t0' = t0 + ChunkOf(dur)
    /\ UNCHANGED << dur, util, workspace, ai, iso, store, schemas, sink, outFile, ret,
                    cfg, pc, catalog, tables, ti, since, rowsTotal, chunkIndex, tar,
                    stitchedLogs, stitchedEvents, clock, absent, budget >>

\* lines 339-341: the query succeeds with no result table
WindowEmpty ==
    /\ pc = "windows"
    /\ MoreWindows(t0, since)
    /\ ~cancelled
    /\ tables[ti] \notin absent
    /\ LET t1 == WindowEnd(t0, ChunkOf(dur), since)
       IN  hist' = Append(hist, Call(ti, t0, t1, "none", 0))
    /\ t0' = t0 + ChunkOf(dur)
    /\ UNCHANGED << dur, util, workspace, ai, iso, store, schemas, sink, outFile, ret,
                    cfg, pc, catalog, tables, ti, since, rowsTotal, chunkIndex, tar,
                    stitchedLogs, stitchedEvents, cancelled, clock, absent, budget >>

\* a row count that is overwritten instead of added to
RowsTotalOverwrite(total, n) == n

\* line 451: rowsTotal += rowsChunk
RowsTotalAfter(total, n) == total + n

\* a part counter that stays where it is
ChunkIndexStays(idx) == idx

\* line 450: chunkIndex++
ChunkIndexAfter(idx) == idx + 1

\* lines 342-516: the query returns a table of rows
WindowRows ==
    /\ pc = "windows"
    /\ MoreWindows(t0, since)
    /\ ~cancelled
    /\ tables[ti] \notin absent
    /\ LET table == tables[ti]
           t1    == WindowEnd(t0, ChunkOf(dur), since)
       IN  \E rows \in SeqsUpTo(RowsOf(table, t0, t1), budget) :
              LET n == Len(rows)
              IN  /\ hist' = Append(hist, Call(ti, t0, t1, "rows", n))
                  /\ budget' = budget - n
                  /\ IF n > 0
                     THEN LET w == WriteFileToTar(tar, sink,
                                       PartEntry(table, ti, chunkIndex, t0, t1, rows))
                          IN  /\ tar' = w.tar
                              /\ sink' = w.sink
                              /\ chunkIndex' = ChunkIndexAfter(chunkIndex)
                              /\ rowsTotal' = RowsTotalAfter(rowsTotal, n)
                     ELSE UNCHANGED << tar, sink, chunkIndex, rowsTotal >>
                  /\ stitchedLogs' =
                        StitchV2(cfg, table, stitchedLogs,
                                 V2Rows(cfg, table, ColsOf(table), rows))
                  /\ stitchedEvents' =
                        StitchEv(cfg, table, stitchedEvents,
                                 EvRows(cfg, table, ColsOf(table), rows))
    /\ t0' = t0 + ChunkOf(dur)
    /\ UNCHANGED << dur, util, workspace, ai, iso, store, schemas, outFile, ret,
                    cfg, pc, catalog, tables, ti, since, cancelled, clock, absent >>

\* lines 518-523 and 245-250: the loop is over, the summary is written and
\* exportTables goes on with the next table
Summary ==
    /\ pc = "windows"
    /\ ~MoreWindows(t0, since)
    /\ tar' = WriteFileToTar(tar, sink, SummaryEntry(tables[ti], ti, rowsTotal)).tar
    /\ sink' = WriteFileToTar(tar, sink, SummaryEntry(tables[ti], ti, rowsTotal)).sink
    /\ ti' = ti + 1
    /\ pc' = "export"
    /\ UNCHANGED << dur, util, workspace, ai, iso, store, schemas, outFile, ret,
                    cfg, catalog, tables, since, t0, rowsTotal, chunkIndex,
                    stitchedLogs, stitchedEvents, cancelled, hist, clock, absent,
                    budget >>

\* a flush that forgets the event logs
StitchedEntriesLogsOnly(c, logs, events) ==
    IF ~c.StitchLogs THEN { << >> }
    ELSE { [i \in 1..Len(lo) |-> LogEntry(lo[i], logs[lo[i]])] :
           lo \in Orderings({ k \in DOMAIN logs : Len(logs[k]) > 0 }) }

\* lines 252-275: the stitched logs, then the stitched events
StitchedEntries(c, logs, events) ==
    IF ~c.StitchLogs THEN { << >> }
    ELSE { [i \in 1..Len(lo) |-> LogEntry(lo[i], logs[lo[i]])]
             \o (IF c.StitchIncludeEvents
                 THEN [i \in 1..Len(eo) |-> EventsEntry(eo[i], events[eo[i]])]
                 ELSE << >>) :
           lo \in Orderings({ k \in DOMAIN logs : Len(logs[k]) > 0 }),
           eo \in Orderings({ k \in DOMAIN events : Len(events[k]) > 0 }) }

Flush ==
    /\ pc = "export"
    /\ ti > Len(tables)
    /\ \E es \in StitchedEntries(cfg, stitchedLogs, stitchedEvents) :
          /\ tar' = WriteAll(tar, sink, es).tar
          /\ sink' = WriteAll(tar, sink, es).sink
    /\ pc' = "index"
    /\ UNCHANGED << dur, util, workspace, ai, iso, store, schemas, outFile, ret,
                    cfg, catalog, tables, ti, since, t0, rowsTotal, chunkIndex,
                    stitchedLogs, stitchedEvents, cancelled, hist, clock, absent,
                    budget >>

\* lines 166-172
WriteIndex ==
    /\ pc = "index"
    /\ tar' = WriteFileToTar(tar, sink, IndexEntry(tables)).tar
    /\ sink' = WriteFileToTar(tar, sink, IndexEntry(tables)).sink
    /\ ret' = "nil"
    /\ pc' = "done"
    /\ UNCHANGED << dur, util, workspace, ai, iso, store, schemas, outFile,
                    cfg, catalog, tables, ti, since, t0, rowsTotal, chunkIndex,
                    stitchedLogs, stitchedEvents, cancelled, hist, clock, absent,
                    budget >>

Next ==
    \/ Validate
    \/ Resolve
    \/ OpenArchive
    \/ BeginTable
    \/ WindowFailed
    \/ WindowCancelled
    \/ WindowEmpty
    \/ WindowRows
    \/ Summary
    \/ Flush
    \/ WriteIndex

Spec == Init /\ [][Next]_vars

----------------------------------------------------------------------------
(* Table resolution alone: every flag combination, resolved once *)

\* the parts a --tables value is made of; white space around a name, a blank
\* and a no-break space U+00A0, empty parts
FilterParts == { << "Perf" >>, << " ", "ContainerLogV2", " " >>, << >>, << " " >> }

\* the parts a --profiles value is made of; before aks-debug a vertical tab
\* U+000B
ProfileParts == { << "podLogs" >>, << "", "aks-debug" >>, << "inventory" >>,
                  << "metrics" >>, << "audit" >>, << "podLogs", " ", "x" >>, << >> }

\* what the management plane lists under --all-tables
Catalogs == { << >>, << "AllTable1", "AllTable2", "Perf" >> }

InitResolve ==
    /\ Idle
    /\ \E fparts \in SeqsUpTo(FilterParts, MaxTables),
          pparts \in SeqsUpTo(ProfileParts, MaxProfiles),
          all \in BOOLEAN :
          cfg = Config(JoinCsv(fparts), JoinCsv(pparts), all, FALSE, FALSE,
                       << Ch("P"), Ch("T"), Num(2), Ch("H") >>)
    /\ pc = "validated"
    /\ Healthy
    /\ arg = << >>
    /\ catalog \in (IF cfg.AllTables THEN Catalogs ELSE { << >> })
    /\ absent = {}
    /\ store = PlainStore
    /\ budget = 0

SpecResolve == InitResolve /\ [][Resolve]_vars

----------------------------------------------------------------------------
(* The window planner alone: one table whose every query fails, every      *)
(* lookback from 0 to MaxDur minutes                                       *)

\* the --timespan values the README lists: PT30M, PT2H, P1D, 30m, 2h
ReadmeSpans ==
    { << Ch("P"), Ch("T"), Num(30), Ch("M") >>, << Ch("P"), Ch("T"), Num(2), Ch("H") >>,
      << Ch("P"), Num(1), Ch("D") >>, << Num(30), Ch("m") >>, << Num(2), Ch("h") >> }

\* values ISO8601Duration rejects: "", " ", 2H, 30, x, 1d, 00, .h
BadSpans ==
    { << >>, << Ch(" ") >>, << Num(2), Ch("H") >>, << Num(30) >>, << Ch("x") >>,
      << Num(1), Ch("d") >>, << Zeros(1, 0) >>, << Ch("."), Ch("h") >> }

\* spans time.ParseDuration takes although they are not plain: white space
\* around (a tab, a no-break space U+00A0), a sign, a fraction, microseconds,
\* a second and a half, and 0.00000000000750h, 26 nanoseconds in float64
OddSpans ==
    { << Ch("\t"), Num(2), Ch("h"), Ch(" ") >>,
      << Ch("-"), Num(2), Ch("h") >>,
      << Num(1), Ch("."), Num(5), Ch("h") >>,
      << Num(90000000), Ch("u"), Ch("s") >>,
      << Num(1500), Ch("m"), Ch("s") >>,
      << Num(0), Ch("."), Zeros(11, 750), Ch("h") >> }

\* the lookbacks of the planner runs: the values of the README, other ISO
\* forms, values that are rejected, every whole minute up to MaxDur, and
\* lookbacks a second or a millisecond off a chunk boundary
PlanSpans ==
    { << Num(n), Ch("m") >> : n \in 0..MaxDur }
      \cup { << Num(n), Ch("m"), Num(k), Ch("s") >> : n \in { 0, 15, 119, 120 }, k \in { 1, 59 } }
      \cup { << Num(2), Ch("h"), Num(1), Ch("m"), Ch("s") >> }
      \cup ReadmeSpans
      \cup { << Ch("p"), Ch("t"), Num(30), Ch("m") >>,
             << Ch(" "), Ch("P"), Ch("T"), Num(1), Ch("H"), Num(30), Ch("M"), Ch(" ") >>,
             << Ch("P"), Num(1), Ch("D"), Ch("T"), Num(2), Ch("H") >> }
      \cup BadSpans

InitPlan ==
    /\ Idle
    /\ \E span \in PlanSpans :
          cfg = Config(<< "Perf" >>, << >>, FALSE, FALSE, FALSE, span)
    /\ pc = "start"
    /\ Healthy
    /\ arg = << >>
    /\ catalog = << >>
    /\ absent = { "Perf" }
    /\ store = PlainStore
    /\ budget = 0

NextPlan ==
    \/ Validate
    \/ Resolve
    \/ OpenArchive
    \/ BeginTable
    \/ WindowFailed
    \/ Summary
    \/ Flush
    \/ WriteIndex

SpecPlan == InitPlan /\ [][NextPlan]_vars

----------------------------------------------------------------------------
(* Runs over an output file that cannot be created, or that fills up after  *)
(* a number of writes                                                       *)

InitSink ==
    /\ Idle
    /\ pc = "start"
    /\ workspace = [get |-> "guid", list |-> "ok"]
    /\ sink \in { [creatable |-> FALSE, bounded |-> FALSE, room |-> 0] }
                 \cup { [creatable |-> TRUE, bounded |-> TRUE, room |-> n] : n \in 0..MaxRoom }
    /\ arg = << >>
    /\ \E parts \in RunTables, events \in BOOLEAN, span \in RunSpans :
          cfg = Config(JoinCsv(<< parts >>), << >>, FALSE, TRUE, events, span)
    /\ catalog = << >>
    /\ absent = {}
    /\ store = PlainStore
    /\ budget = 1

SpecSink == InitSink /\ [][Next]_vars

----------------------------------------------------------------------------
(* Runs over configurations Run may refuse: the timespan, the workspace ID, *)
(* the answers of the management plane                                      *)

\* workspace IDs: the usual one, one in other letter case, one with white
\* space around, "", a blank, one of three parts, one without a resource
\* group, one whose last part is "workspaces"
WorkspaceIDs ==
    { WorkspaceOne,
      << "", "SUBSCRIPTIONS", "sub1", "ResourceGroups", "rg1", "providers",
         "Microsoft.OperationalInsights", "Workspaces", "ws1" >>,
      << " ", "subscriptions", "sub1", "resourceGroups", "rg1", "providers",
         "Microsoft.OperationalInsights", "workspaces", "ws1\n" >>,
      << "" >>,
      << " " >>,
      << "", "subscriptions", "sub1" >>,
      << "", "subscriptions", "sub1", "providers", "Microsoft.OperationalInsights",
         "workspaces", "ws1", "x", "y" >>,
      << "", "subscriptions", "sub1", "resourceGroups", "rg1", "providers",
         "Microsoft.OperationalInsights", "ws1", "workspaces" >> }

InitConfig ==
    /\ Idle
    /\ pc = "start"
    /\ workspace \in [get : { "guid", "noguid", "error" }, list : { "ok", "error" }]
    /\ sink = [creatable |-> TRUE, bounded |-> FALSE, room |-> 0]
    /\ arg = << >>
    /\ \E span \in { << Num(10), Ch("m") >> } \cup OddSpans \cup BadSpans, id \in WorkspaceIDs,
          all \in BOOLEAN :
          cfg = [Config(<< "Perf" >>, << >>, all, FALSE, FALSE, span)
                   EXCEPT !.WorkspaceID = id]
    /\ catalog = << >>
    /\ absent = { "Perf" }
    /\ store = PlainStore
    /\ budget = 0

SpecConfig == InitConfig /\ [][NextPlan]_vars

----------------------------------------------------------------------------
(* Runs over a store whose messages hold line breaks and whose events come  *)
(* from a named namespace and from none, under every choice of the stitch   *)
(* flags                                                                    *)

\* messages: a\nb, a\r\nb, a lone \r, two newlines in a row, a plain one, ""
Texts ==
    { << "a", "\n", "b" >>, << "a", "\r", "\n", "b" >>, << "\r" >>, << "\n", "\n" >>,
      << "m" >>, << >> }

InitLines ==
    /\ Idle
    /\ pc = "start"
    /\ Healthy
    /\ arg = << >>
    /\ \E t \in { "ContainerLogV2", "KubeEvents" }, stitch \in BOOLEAN, events \in BOOLEAN :
          cfg = Config(<< t >>, << >>, FALSE, stitch, events, << Num(10), Ch("m") >>)
    /\ \E x \in Texts :
          store = [logs   |-> { LogRows("whole", K1, x) },
                   events |-> { EventRows("whole", "ns1", x), EventRows("whole", "", x) }]
    /\ catalog = << >>
    /\ absent = {}
    /\ budget = MaxRows

SpecLines == InitLines /\ [][Next]_vars

----------------------------------------------------------------------------
(* Runs over names that SafeFileName changes: tables a.d and a_d that the   *)
(* workspace does not hold, container logs of a pod a.d and a pod a_d, of   *)
(* a namespace unnamed and of rows that give no namespace, events of the    *)
(* namespaces a.d and a_d.                                                  *)

NameFilters ==
    { << "a.d", ",", "a_d" >>, << "ContainerLogV2" >>, << "KubeEvents" >>,
      << "ContainerLogV2", ",", "KubeEvents" >> }

NameKeys ==
    { << [ns |-> "ns1", pod |-> "a.d", container |-> "app"],
         [ns |-> "ns1", pod |-> "a_d", container |-> "app"] >>,
      << [ns |-> "", pod |-> "pod1", container |-> "app"],
         [ns |-> "unnamed", pod |-> "pod1", container |-> "app"] >> }

InitNames ==
    /\ Idle
    /\ pc = "start"
    /\ Healthy
    /\ arg = << >>
    /\ \E f \in NameFilters, stitch \in BOOLEAN, events \in BOOLEAN :
          cfg = Config(f, << >>, FALSE, stitch, events, << Num(10), Ch("m") >>)
    /\ \E ks \in NameKeys :
          store = [logs   |-> { LogRows("whole", ks[1], << "m" >>),
                               LogRows("whole", ks[2], << "m" >>) },
                   events |-> { EventRows("whole", "a.d", << "m" >>),
                               EventRows("whole", "a_d", << "m" >>) }]
    /\ catalog = << >>
    /\ absent = { "a.d", "a_d" }
    /\ budget = MaxRows

SpecNames == InitNames /\ [][Next]_vars

----------------------------------------------------------------------------
(* Runs to their end: Run is one sequential goroutine, so a step that can   *)
(* be taken is taken. Short lookbacks over a store that answers, longer     *)
(* ones (three windows of an hour, the eight of the default) over tables    *)
(* that do not exist, so that every query fails.                            *)

LongSpans == { << Num(0), Ch("m") >>, << Num(121), Ch("m") >> }

InitLive ==
    /\ Idle
    /\ pc = "start"
    /\ Healthy
    /\ arg = << >>
    /\ \E parts \in RunFilters, span \in RunSpans \cup LongSpans :
          /\ cfg = Config(JoinCsv(parts), << >>, FALSE, FALSE, FALSE, span)
          /\ absent = (IF span \in LongSpans THEN Range(Concat(parts)) ELSE {})
    /\ catalog = << >>
    /\ store = PlainStore
    /\ budget = 1

SpecLive == InitLive /\ [][Next]_vars /\ WF_vars(Next)

----------------------------------------------------------------------------
(* The utility functions called on their own *)

\* the characters of the names: a letter of each case, a digit, the marks the
\* class names, the separators, white space (a blank, a tab, a vertical tab
\* U+000B, a no-break space U+00A0, a line separator), and two characters
\* outside the class, the second a rune of more than one byte
NameChars ==
    { "a", "Z", "7", "_", "-", ".", "/", " ", "\t", "", " ", "U+2028", "@", "é" }

\* durations with a part of a second: above 2^24 seconds float64 rounds
\* 0.999999999 s up to the next second, below it the part is cut; a second
\* and a half; 26 nanoseconds; white space around
FineSpans ==
    { << Num(4661), Ch("h"), Num(0), Ch("."), Num(999999999), Ch("s") >>,
      << Num(4660), Ch("h"), Num(0), Ch("."), Num(999999999), Ch("s") >>,
      << Num(1500), Ch("m"), Ch("s") >>,
      << Num(0), Ch("."), Zeros(11, 750), Ch("h") >>,
      << Ch(""), Num(2), Ch("h"), Ch(" ") >> }

\* Go durations of whole seconds: 2h30m45s, also unnormalised ones as 90m or
\* 1h3600s, and the short forms 45s and 30m
GoSpans ==
    { << Num(h), Ch("h"), Num(m), Ch("m"), Num(k), Ch("s") >> :
          h \in 0..MaxHours, m \in { 0, 1, 30, 59, 60, 90 }, k \in { 0, 1, 45, 59, 60, 3600 } }
      \cup { << Num(m), Ch("m") >> : m \in { 0, 30, 150 } }
      \cup { << Num(k), Ch("s") >> : k \in { 0, 45, 9045 } }

InitUtil ==
    /\ Idle
    /\ pc = "util"
    /\ Healthy
    /\ cfg = Config(<< >>, << >>, FALSE, FALSE, FALSE, << >>)
    /\ catalog = << >>
    /\ absent = {}
    /\ store = PlainStore
    /\ budget = 0
    /\ arg \in [fn : { "SafeFileName" }, x : SeqsUpTo(NameChars, MaxName)]
                \cup [fn : { "ISO8601Duration" }, x : GoSpans \cup FineSpans]

\* SafeFileName(name), then SafeFileName of the result
CallSafeFileName ==
    /\ pc = "util"
    /\ arg.fn = "SafeFileName"
    /\ Len(out) < 2
    /\ out' = Append(out, SafeFileName(IF out = << >> THEN arg.x ELSE out[Len(out)]))
    /\ UNCHANGED << dur, workspace, ai, iso, store, schemas, sink, outFile, ret, arg,
                    cfg, pc, catalog, tables, ti, since, t0, rowsTotal, chunkIndex, tar,
                    stitchedLogs, stitchedEvents, cancelled, hist, clock, absent,
                    budget >>

CallISO8601Duration ==
    /\ pc = "util"
    /\ arg.fn = "ISO8601Duration"
    /\ out = << >>
    /\ out' = << ISO8601Duration(arg.x) >>
    /\ UNCHANGED << dur, workspace, ai, iso, store, schemas, sink, outFile, ret, arg,
                    cfg, pc, catalog, tables, ti, since, t0, rowsTotal, chunkIndex, tar,
                    stitchedLogs, stitchedEvents, cancelled, hist, clock, absent,
                    budget >>

\* ParseISO8601ToDuration of what ISO8601Duration returned
CallParseISO8601ToDuration ==
    /\ pc = "util"
    /\ arg.fn = "ISO8601Duration"
    /\ Len(out) = 1
    /\ out[1].ok
    /\ out' = Append(out, ParseISO8601ToDuration(out[1].iso))
    /\ UNCHANGED << dur, workspace, ai, iso, store, schemas, sink, outFile, ret, arg,
                    cfg, pc, catalog, tables, ti, since, t0, rowsTotal, chunkIndex, tar,
                    stitchedLogs, stitchedEvents, cancelled, hist, clock, absent,
                    budget >>

NextUtil ==
    \/ CallSafeFileName
    \/ CallISO8601Duration
    \/ CallParseISO8601ToDuration

SpecUtil == InitUtil /\ [][NextUtil]_vars

----------------------------------------------------------------------------
(* AIGatherer.validateAndFixKQLQuery (ai_gatherer.go:337-370) and its twin  *)
(* validateAndFixKQLQueryWithClient (531-564): the same loop over           *)
(* interfaces.  One action is one pass of the loop.                         *)

\* line 338: maxRetries := 2
maxRetries == 2

\* the queries: the one generated and what a fix request may give back
Queries == { "q0", "q1", "q2" }

\* what lcli.QueryWorkspace answers to the validation query
ServerAnswers == { "ok", "SyntaxError", "SemanticError", "PartialError", "Timeout" }

\* validateKQLQuery (447-486): nil when the query ran or the error is partial
validateKQLQuery(answer) == answer \in { "ok", "PartialError" }

\* the record of one validateKQLQuery call
Validation(q, answer) ==
    [op |-> "validate", q |-> q, ok |-> validateKQLQuery(answer), answer |-> answer]

\* the record of one FixKQLQuery call: the query given, whether it failed,
\* the query returned
FixRequest(q, ok, fixed) == [op |-> "fix", q |-> q, ok |-> ok, answer |-> fixed]

\* Run (100-121) calls it with the generated query once basicKQLValidation
\* has passed it
InitAI ==
    /\ iso = << >>
    /\ tables = << >>
    /\ ti = 0
    /\ schemas = << >>
    /\ since = 0
    /\ dur = 0
    /\ t0 = 0
    /\ rowsTotal = 0
    /\ chunkIndex = 0
    /\ tar = << >>
    /\ stitchedLogs = << >>
    /\ stitchedEvents = << >>
    /\ cancelled = FALSE
    /\ hist = << >>
    /\ clock = 1000 * Minute
    /\ outFile = FALSE
    /\ ret = ""
    /\ out = << >>
    /\ arg = << >>
    /\ pc = "ai"
    /\ Healthy
    /\ cfg = Config(<< >>, << >>, FALSE, FALSE, FALSE, << >>)
    /\ catalog = << >>
    /\ absent = {}
    /\ store = PlainStore
    /\ budget = 0
    /\ \E q \in Queries :
          ai = [pc |-> "loop", kqlQuery |-> q, attempt |-> 0, currentQuery |-> q,
                calls |-> << >>, query |-> "", err |-> FALSE]

\* lines 346-349: the validation passes, currentQuery is returned
AttemptPasses ==
    /\ pc = "ai"
    /\ ai.pc = "loop"
    /\ ai.attempt <= maxRetries
    /\ \E answer \in ServerAnswers :
          /\ validateKQLQuery(answer)
          /\ ai' = [ai EXCEPT !.pc = "returned", !.query = ai.currentQuery,
                              !.calls = Append(@, Validation(ai.currentQuery, answer))]
    /\ UNCHANGED << dur, workspace, iso, store, schemas, sink, outFile, ret, arg, out,
                    cfg, pc, catalog, tables, ti, since, t0, rowsTotal, chunkIndex, tar,
                    stitchedLogs, stitchedEvents, cancelled, hist, clock, absent,
                    budget >>

\* lines 346-364: the validation fails before the last attempt, the fix
\* request succeeds and its query becomes currentQuery
AttemptFixed ==
    /\ pc = "ai"
    /\ ai.pc = "loop"
    /\ ai.attempt < maxRetries
    /\ \E answer \in ServerAnswers, fixedQuery \in Queries :
          /\ ~validateKQLQuery(answer)
          /\ ai' = [ai EXCEPT !.attempt = @ + 1, !.currentQuery = fixedQuery,
                              !.calls = @ \o << Validation(ai.currentQuery, answer),
                                                FixRequest(ai.currentQuery, TRUE, fixedQuery) >>]
    /\ UNCHANGED << dur, workspace, iso, store, schemas, sink, outFile, ret, arg, out,
                    cfg, pc, catalog, tables, ti, since, t0, rowsTotal, chunkIndex, tar,
                    stitchedLogs, stitchedEvents, cancelled, hist, clock, absent,
                    budget >>

\* a failed fix request whose empty result becomes currentQuery all the same
AttemptFixFailsTakesResult ==
    /\ pc = "ai"
    /\ ai.pc = "loop"
    /\ ai.attempt < maxRetries
    /\ \E answer \in ServerAnswers :
          /\ ~validateKQLQuery(answer)
          /\ ai' = [ai EXCEPT !.attempt = @ + 1, !.currentQuery = "",
                              !.calls = @ \o << Validation(ai.currentQuery, answer),
                                                FixRequest(ai.currentQuery, FALSE, "") >>]
    /\ UNCHANGED << dur, workspace, iso, store, schemas, sink, outFile, ret, arg, out,
                    cfg, pc, catalog, tables, ti, since, t0, rowsTotal, chunkIndex, tar,
                    stitchedLogs, stitchedEvents, cancelled, hist, clock, absent,
                    budget >>

\* lines 346-361: the validation fails before the last attempt and the fix
\* request fails too: continue, currentQuery as it was
AttemptFixFails ==
    /\ pc = "ai"
    /\ ai.pc = "loop"
    /\ ai.attempt < maxRetries
    /\ \E answer \in ServerAnswers :
          /\ ~validateKQLQuery(answer)
          /\ ai' = [ai EXCEPT !.attempt = @ + 1,
                              !.calls = @ \o << Validation(ai.currentQuery, answer),
                                                FixRequest(ai.currentQuery, FALSE, "") >>]
    /\ UNCHANGED << dur, workspace, iso, store, schemas, sink, outFile, ret, arg, out,
                    cfg, pc, catalog, tables, ti, since, t0, rowsTotal, chunkIndex, tar,
                    stitchedLogs, stitchedEvents, cancelled, hist, clock, absent,
                    budget >>

\* lines 346-347 and 365-367: the validation of the last attempt fails, the
\* empty query and an error are returned
AttemptGivesUp ==
    /\ pc = "ai"
    /\ ai.pc = "loop"
    /\ ai.attempt = maxRetries
    /\ \E answer \in ServerAnswers :
          /\ ~validateKQLQuery(answer)
          /\ ai' = [ai EXCEPT !.pc = "returned", !.query = "", !.err = TRUE,
                              !.calls = Append(@, Validation(ai.currentQuery, answer))]
    /\ UNCHANGED << dur, workspace, iso, store, schemas, sink, outFile, ret, arg, out,
                    cfg, pc, catalog, tables, ti, since, t0, rowsTotal, chunkIndex, tar,
                    stitchedLogs, stitchedEvents, cancelled, hist, clock, absent,
                    budget >>

NextAI ==
    \/ AttemptPasses
    \/ AttemptFixed
    \/ AttemptFixFails
    \/ AttemptGivesUp

SpecAI == InitAI /\ [][NextAI]_vars

----------------------------------------------------------------------------
(* Vocabulary of the properties *)

\* the calls of hist made for the table at index i, in order
CallsOf(i) == SelectSeq(hist, LAMBDA c : c.ti = i)

\* the entries of the archive of a kind written for the table at index i
EntriesOf(kind, i) == SelectSeq(tar, LAMBDA e : e.kind = kind /\ e.by = i)

RECURSIVE SumRows(_)
SumRows(calls) == IF calls = << >> THEN 0 ELSE Head(calls).rows + SumRows(Tail(calls))

RECURSIVE SumBodies(_)
SumBodies(es) == IF es = << >> THEN 0 ELSE Len(Head(es).body) + SumBodies(Tail(es))

CeilDiv(a, b) == (a + b - 1) \div b

\* the lookback exportTableData plans with for a timespan, in milliseconds
LookbackOf(span) == DurOf(ISO8601Duration(span).iso, [Timespan |-> span])

\* the lookbacks of the timespans of the runs
Lookbacks == [span \in RunSpans \cup LongSpans \cup PlanSpans |-> LookbackOf(span)]

\* the lookback exportTableData plans with, in milliseconds
Lookback ==
    IF cfg.Timespan \in DOMAIN Lookbacks THEN Lookbacks[cfg.Timespan]
    ELSE LookbackOf(cfg.Timespan)

\* the windows a lookback of d milliseconds is to be cut into
PlannedCount(d) ==
    IF d = 0 THEN 8
    ELSE IF d > 2 * Hour THEN CeilDiv(d, Hour) ELSE CeilDiv(d, 15 * 60000)

\* exportTableData has returned for the table at index i
Exported(i) == i < ti

\* s without the later occurrences of its members
KeepFirsts(s) ==
    LET firsts == { i \in 1..Len(s) : \A j \in 1..(i - 1) : s[j] # s[i] }
        nth(k) == CHOOSE i \in firsts : Cardinality({ j \in firsts : j <= i }) = k
    IN  [k \in 1..Cardinality(firsts) |-> s[nth(k)]]

\* the registry as the tests of GetDefaultProfiles spell it out
PodLogsTables ==
    << "ContainerLogV2", "ContainerLog", "KubeEvents", "KubeMonAgentEvents", "Syslog" >>

InventoryTables ==
    << "KubePodInventory", "KubeNodeInventory", "KubeServices", "KubePVInventory",
       "ContainerInventory", "ContainerImageInventory", "ContainerNodeInventory",
       "KubeHealth" >>

MetricsTables == << "InsightsMetrics", "Perf", "Heartbeat" >>

AuditTables == << "AKSControlPlane", "AKSAudit", "AKSAuditAdmin" >>

DebugUnion == PodLogsTables \o InventoryTables \o MetricsTables

Expansion(p) ==
    IF p = "podLogs" THEN PodLogsTables
    ELSE IF p = "inventory" THEN InventoryTables
    ELSE IF p = "metrics" THEN MetricsTables
    ELSE IF p = "audit" THEN AuditTables
    ELSE IF p = "aks-debug" THEN DebugUnion
    ELSE << >>

KnownProfiles == { "podLogs", "inventory", "metrics", "audit", "aks-debug" }

\* the names a flag value lists: its parts without blanks, empty parts dropped
Named(csv) == TrimmedParts(StringsSplit(csv))

\* the profiles branch of resolveTables decides the result
ByProfiles ==
    /\ pc = "resolved"
    /\ ~cfg.AllTables
    /\ Named(cfg.TableFilter) = << >>
    /\ cfg.Profiles # << >>

----------------------------------------------------------------------------
(* C1: for every lookback D > 0 the windows number ceil(D / chunk), chunk   *)
(* being one hour when D > 2h and 15 minutes otherwise; the first starts at *)
(* now - D, each starts where the one before ends, all but the last are one *)
(* chunk long, and the last ends at now.                                    *)
C1_WindowPlan ==
    (Exported(1) /\ Lookback > 0) =>
        LET w    == CallsOf(1)
            n    == Len(w)
            size == IF Lookback > 2 * Hour THEN Hour ELSE 15 * 60000
        IN  /\ n = CeilDiv(Lookback, size)
            /\ w[1].t0 = since - Lookback
            /\ \A i \in 1..(n - 1) : w[i + 1].t0 = w[i].t1 /\ w[i].t1 - w[i].t0 = size
            /\ \A i \in 1..n : w[i].t0 < w[i].t1 /\ w[i].t1 - w[i].t0 <= size
            /\ w[n].t1 = since

\* a lookback of 130 minutes: two windows of an hour and one of ten minutes
C1_Witness ==
    /\ Exported(1)
    /\ Lookback = 130 * 60000
    /\ Len(CallsOf(1)) = 3
    /\ CallsOf(1)[3].t1 - CallsOf(1)[3].t0 = 10 * 60000

(* C7: a lookback of zero is planned as a lookback of two hours: both give  *)
(* the eight quarter-hour windows that end at now, never zero windows.      *)
C7_ZeroIsTwoHours ==
    (Exported(1) /\ Lookback \in {0, 120 * 60000}) =>
        /\ Len(CallsOf(1)) = 8
        /\ \A i \in 1..8 :
              /\ CallsOf(1)[i].t0 = since - 120 * 60000 + 15 * 60000 * (i - 1)
              /\ CallsOf(1)[i].t1 = since - 120 * 60000 + 15 * 60000 * i

C7_Witness == Exported(1) /\ Lookback = 0 /\ Len(CallsOf(1)) = 8

----------------------------------------------------------------------------
(* Order of the lines of a stitched buffer: by parsed timestamp, by the raw *)
(* string when one of the two does not parse                                *)

LineLess(x, y) ==
    IF x.ts.ok /\ y.ts.ok THEN x.ts.t < y.ts.t ELSE x.ts.raw < y.ts.raw

NonDecreasing(lines) ==
    \A i \in 1..(Len(lines) - 1) : ~LineLess(lines[i + 1], lines[i])

(* C2: at the end of a run the lines of every stitched buffer, container    *)
(* log or event log, are non-decreasing by timestamp.                       *)
C2_StitchedOrder ==
    pc = "done" =>
        /\ \A k \in DOMAIN stitchedLogs : NonDecreasing(stitchedLogs[k])
        /\ \A ns \in DOMAIN stitchedEvents : NonDecreasing(stitchedEvents[ns])

(* C3: whatever queries of a table failed, every table after it in the      *)
(* resolved list has all its windows queried and gets its summary; the run  *)
(* is not cut short.                                                        *)
C3_LaterTablesExported ==
    pc = "done" =>
        \A x, y \in 1..Len(tables) :
            (x < y /\ \E i \in 1..Len(hist) : hist[i].ti = x /\ hist[i].res = "err") =>
                /\ Len(CallsOf(y)) = PlannedCount(Lookback)
                /\ Len(EntriesOf("summary", y)) >= 1

\* every query of the first table failed, the second table exported a part
C3_Witness ==
    /\ pc = "done"
    /\ Len(tables) = 2
    /\ Len(CallsOf(1)) = 2
    /\ \A i \in 1..Len(hist) : hist[i].ti = 1 => hist[i].res = "err"
    /\ Len(EntriesOf("part", 2)) >= 1
    /\ Len(EntriesOf("summary", 2)) = 1

(* C4: once the context is cancelled during a query, no further query is    *)
(* issued and no later table is started.                                    *)
C4_CancelHalts ==
    \A i \in 1..Len(hist) :
        hist[i].res = "cancelled" =>
            /\ i = Len(hist)
            /\ ~(pc = "windows" /\ ti > hist[i].ti)

(* C5: the row count of a summary is the sum of the rows of the parts of    *)
(* its table, which is the sum of the rows its successful windows returned; *)
(* failed windows add nothing.                                              *)
C5_SummaryCount ==
    \A j \in 1..Len(tar) :
        tar[j].kind = "summary" =>
            /\ tar[j].body = SumBodies(EntriesOf("part", tar[j].by))
            /\ tar[j].body =
                  SumRows(SelectSeq(CallsOf(tar[j].by), LAMBDA c : c.res = "rows"))

\* a summary that counts rows of a table one of whose windows failed
C5_Witness ==
    \E j \in 1..Len(tar) :
        /\ tar[j].kind = "summary"
        /\ tar[j].body >= 1
        /\ \E i \in 1..Len(hist) : hist[i].ti = tar[j].by /\ hist[i].res = "err"

(* C6: a table has exactly one summary once exportTableData has returned    *)
(* for it and none before, and by then every one of its windows has been    *)
(* queried, whatever the queries returned.                                  *)
C6_OneSummary ==
    \A i \in 1..Len(tables) :
        /\ Exported(i) =>
              /\ Len(EntriesOf("summary", i)) = 1
              /\ Len(CallsOf(i)) = PlannedCount(Lookback)
        /\ ~Exported(i) => Len(EntriesOf("summary", i)) = 0

\* both windows of the first table failed, the second had a failure and rows
C6_Witness ==
    /\ Exported(2)
    /\ Len(CallsOf(1)) = 2
    /\ \A i \in 1..Len(hist) : hist[i].ti = 1 => hist[i].res = "err"
    /\ \E i, j \in 1..Len(hist) :
          /\ hist[i].ti = 2 /\ hist[i].res = "err"
          /\ hist[j].ti = 2 /\ hist[j].res = "rows" /\ hist[j].rows > 0
    /\ Len(EntriesOf("summary", 1)) = 1
    /\ Len(EntriesOf("summary", 2)) = 1

(* C8: the list resolveTables returns holds no identifier twice.            *)
C8_NoDuplicates == pc = "resolved" => NoDuplicates(tables)

(* C9: the registry's aks-debug is the de-duplicated union of podLogs,      *)
(* inventory and metrics, 16 tables; a list of known profiles resolves to   *)
(* the tables of its profiles, each once, in first-seen order; and          *)
(* podLogs,aks-debug resolves to exactly those 16.                          *)
C9_ProfileUnion ==
    /\ GetDefaultProfiles["aks-debug"] = DebugUnion
    /\ Len(DebugUnion) = 16
    /\ NoDuplicates(DebugUnion)
    /\ (ByProfiles /\ Named(cfg.Profiles) # << >>
          /\ Range(Named(cfg.Profiles)) \subseteq KnownProfiles) =>
            LET names == Named(cfg.Profiles)
            IN  /\ tables = KeepFirsts(Concat([i \in 1..Len(names) |-> Expansion(names[i])]))
                /\ NoDuplicates(tables)
    /\ (ByProfiles /\ Named(cfg.Profiles) = << "podLogs", "aks-debug" >>) =>
            tables = DebugUnion

C9_Witness ==
    /\ ByProfiles
    /\ Named(cfg.Profiles) = << "podLogs", "aks-debug" >>
    /\ Len(tables) = 16

(* C10: under --all-tables the resolved list is the catalog as listed,      *)
(* whatever --tables and --profiles say.                                    *)
C10_AllTablesOverrides == (pc = "resolved" /\ cfg.AllTables) => tables = catalog

\* the known profiles a --profiles value names, in order
KnownNamed(csv) == SelectSeq(Named(csv), LAMBDA p : p \in KnownProfiles)

\* the de-duplicated union of the known profiles a --profiles value names
KnownUnion(csv) ==
    KeepFirsts(Concat([i \in 1..Len(KnownNamed(csv)) |-> Expansion(KnownNamed(csv)[i])]))

\* the places of a flag value that hold a separator, and the two ends
Cuts(csv) == { 0, Len(csv) + 1 } \cup { i \in 1..Len(csv) : csv[i] = "," }

\* the cut that closes the entry opened at cut a
CutAfter(csv, a) == CHOOSE b \in Cuts(csv) : b > a /\ \A x \in Cuts(csv) : x > a => b <= x

\* the places of the entry opened at cut a that hold no white space
InkOf(csv, a) == { i \in (a + 1)..(CutAfter(csv, a) - 1) : csv[i] \notin WhiteSpace }

\* the cuts that open an entry with something in it besides white space
Openers(csv) == { a \in Cuts(csv) : a <= Len(csv) /\ InkOf(csv, a) # {} }

\* the characters of p written one after the other
RECURSIVE Glued(_)
Glued(p) == IF p = << >> THEN "" ELSE Head(p) \o Glued(Tail(p))

\* the entry opened at cut a, from its first to its last place that holds
\* no white space
ListedEntry(csv, a) ==
    Glued(SubSeq(csv, CHOOSE i \in InkOf(csv, a) : \A j \in InkOf(csv, a) : i <= j,
                      CHOOSE i \in InkOf(csv, a) : \A j \in InkOf(csv, a) : j <= i))

\* the trimmed, non-empty entries of a comma-separated flag value, in order
Listed(csv) ==
    << >> \o [k \in 1..Cardinality(Openers(csv)) |->
                 ListedEntry(csv, CHOOSE a \in Openers(csv) :
                                Cardinality({ x \in Openers(csv) : x <= a }) = k)]

(* C11 as stated: a non-empty --tables value, without --all-tables,         *)
(* resolves to its trimmed non-empty entries in order, whatever --profiles  *)
(* says.                                                                    *)
C11_TablesOverrideProfiles ==
    (pc = "resolved" /\ ~cfg.AllTables /\ cfg.TableFilter # << >>) =>
        tables = Listed(cfg.TableFilter)

(* C11 amended: a --tables value with at least one entry that is not white  *)
(* space, without --all-tables, resolves to its trimmed non-empty entries   *)
(* in order, whatever --profiles says; a non-empty --tables value of white  *)
(* space and commas only resolves as if --tables were not given: to the     *)
(* union of the known profiles --profiles names, and to the aks-debug       *)
(* default when it names none.                                              *)
C11_NamedTablesOverrideProfiles ==
    (pc = "resolved" /\ ~cfg.AllTables /\ cfg.TableFilter # << >>) =>
        tables = (IF Listed(cfg.TableFilter) # << >> THEN Listed(cfg.TableFilter)
                  ELSE IF KnownNamed(cfg.Profiles) = << >> THEN DebugUnion
                  ELSE KnownUnion(cfg.Profiles))

\* --tables " ContainerLogV2<U+00A0>,Perf" together with --profiles audit
C11_Witness ==
    /\ pc = "resolved"
    /\ ~cfg.AllTables
    /\ cfg.TableFilter = << " ", "ContainerLogV2", " ", ",", "Perf" >>
    /\ cfg.Profiles = << "audit" >>
    /\ tables = << "ContainerLogV2", "Perf" >>

(* C12 as stated: whenever --profiles decides, the resolved list is the     *)
(* de-duplicated union of the known profiles named, also when every name is *)
(* unknown.                                                                 *)
C12_UnknownSkipped == ByProfiles => tables = KnownUnion(cfg.Profiles)

(* C12 amended: an unknown profile name is skipped; the resolved list is    *)
(* the de-duplicated union of the known profiles named, and the aks-debug   *)
(* default when the value names no known profile.                           *)
C12_UnknownSkippedOrDefault ==
    ByProfiles =>
        tables = (IF KnownNamed(cfg.Profiles) = << >> THEN DebugUnion
                  ELSE KnownUnion(cfg.Profiles))

\* --profiles "podLogs,podLogs x,metrics": podLogs x is no profile and is
\* skipped, metrics still counts
C12_Witness ==
    /\ ByProfiles
    /\ Named(cfg.Profiles) = << "podLogs", "podLogs x", "metrics" >>
    /\ tables = PodLogsTables \o MetricsTables

(* C13: without --tables, --profiles and --all-tables the resolved list is  *)
(* the aks-debug union: podLogs, inventory, metrics, each table once.       *)
C13_DefaultIsDebugUnion ==
    (pc = "resolved" /\ ~cfg.AllTables /\ cfg.TableFilter = << >>
        /\ cfg.Profiles = << >>) =>
        /\ tables = KeepFirsts(PodLogsTables \o InventoryTables \o MetricsTables)
        /\ Len(tables) = 16

C13_Witness ==
    /\ pc = "resolved"
    /\ ~cfg.AllTables
    /\ cfg.TableFilter = << >>
    /\ cfg.Profiles = << >>
    /\ Len(tables) = 16

\* the characters a sanitised name may hold: [A-Za-z0-9_-]
SafeChars == { "a", "Z", "7", "_", "-", "u", "n", "m", "e", "d" }

(* C14: SafeFileName of a result of SafeFileName is that result; a result   *)
(* is never empty and holds only characters of [A-Za-z0-9_-].               *)
C14_SafeFileNameIdempotent ==
    (pc = "util" /\ arg.fn = "SafeFileName") =>
        /\ \A i \in 1..Len(out) :
              out[i] # << >> /\ \A j \in 1..Len(out[i]) : out[i][j] \in SafeChars
        /\ Len(out) = 2 => out[2] = out[1]

\* " ./" sanitised twice: the blank is trimmed, the dot and the slash replaced
C14_Witness ==
    /\ pc = "util"
    /\ arg.fn = "SafeFileName"
    /\ arg.x = << " ", ".", "/" >>
    /\ out = << << "_", "_" >>, << "_", "_" >> >>

\* the seconds a Go duration of the forms of GoSpans denotes
RECURSIVE GoSeconds(_)
GoSeconds(x) ==
    IF Len(x) < 2 THEN 0
    ELSE x[1].n * (IF x[2].c = "h" THEN 3600 ELSE IF x[2].c = "m" THEN 60 ELSE 1)
           + GoSeconds(SubSeq(x, 3, Len(x)))

(* C15: for a Go duration of d whole seconds ISO8601Duration gives          *)
(* PT<h>H<m>M<s>S with h = d div 3600, m = (d mod 3600) div 60,             *)
(* s = d mod 60, and ParseISO8601ToDuration of that gives d back.           *)
C15_DurationRoundTrip ==
    (pc = "util" /\ arg.fn = "ISO8601Duration" /\ arg.x \in GoSpans) =>
        LET d == GoSeconds(arg.x)
        IN  /\ Len(out) >= 1 =>
                  /\ out[1].ok
                  /\ out[1].iso =
                        << Ch("P"), Ch("T"), Num(d \div 3600), Ch("H"),
                           Num((d % 3600) \div 60), Ch("M"), Num(d % 60), Ch("S") >>
            /\ Len(out) = 2 => out[2].ok /\ Millis(out[2].d) = d * 1000

\* 2h30m45s becomes PT2H30M45S and parses back to 9045 seconds
C15_Witness ==
    /\ pc = "util"
    /\ arg.fn = "ISO8601Duration"
    /\ arg.x = << Num(2), Ch("h"), Num(30), Ch("m"), Num(45), Ch("s") >>
    /\ Len(out) = 2
    /\ out[1].iso = << Ch("P"), Ch("T"), Num(2), Ch("H"), Num(30), Ch("M"),
                       Num(45), Ch("S") >>
    /\ Millis(out[2].d) = 9045000

\* the milliseconds a unit of a duration stands for, 0 for none
UnitMillis(u) ==
    IF u \in { << "D" >>, << "d" >> } THEN 86400000
    ELSE IF u \in { << "H" >>, << "h" >> } THEN Hour
    ELSE IF u \in { << "M" >>, << "m" >> } THEN 60000
    ELSE IF u \in { << "S" >>, << "s" >> } THEN 1000
    ELSE IF u = << "m", "s" >> THEN 1
    ELSE 0

\* the duration a --timespan value denotes, in milliseconds: each number
\* times its unit, the designators P and T and the blanks set aside
Denoted(span) ==
    LET x == SelectSeq(span, LAMBDA k : k.digits \/ k.c \notin { "P", "p", "T", "t", " " })
        nums == { i \in 1..Len(x) : x[i].digits }
        unit(i) == LET later == { j \in nums : j > i }
                       stop  == IF later = {} THEN Len(x) + 1
                                ELSE CHOOSE j \in later : \A k \in later : j <= k
                   IN  [k \in 1..(stop - i - 1) |-> x[i + k].c]
        RECURSIVE Sum(_)
        Sum(S) == IF S = {} THEN 0
                  ELSE LET i == CHOOSE j \in S : TRUE
                       IN  x[i].n * UnitMillis(unit(i)) + Sum(S \ { i })
    IN  Sum(nums)

(* C16: for a --timespan value the run accepts and that denotes a duration  *)
(* above zero, the windows of a table start that duration before now and    *)
(* end at now.                                                              *)
C16_TimespanCovered ==
    (Exported(1) /\ Denoted(cfg.Timespan) > 0) =>
        /\ CallsOf(1)[1].t0 = since - Denoted(cfg.Timespan)
        /\ CallsOf(1)[Len(CallsOf(1))].t1 = since

\* a container-log row that names no namespace, no pod and no container
IsNoise(row) == row.PodNamespace = "" /\ row.PodName = "" /\ row.ContainerName = ""

NoiseKey == [ns |-> "", pod |-> "", container |-> ""]

(* C17: a container-log row with empty namespace, pod and container never   *)
(* reaches a stitched buffer or a stitched log of the archive, while every  *)
(* row a query returned, such rows included, is in the part of its window.  *)
C17_NoiseOnlyInParts ==
    /\ NoiseKey \notin DOMAIN stitchedLogs
    /\ \A j \in 1..Len(tar) :
          tar[j].kind = "log" => << tar[j].dir, tar[j].pod, tar[j].file >> # << "", "", "" >>
    /\ \A i \in 1..Len(hist) :
          (hist[i].res = "rows" /\ hist[i].rows > 0) =>
              \E j \in 1..Len(tar) :
                  /\ tar[j].kind = "part"
                  /\ tar[j].by = hist[i].ti
                  /\ tar[j].from = FormatRFC3339(hist[i].t0)
                  /\ Len(tar[j].body) = hist[i].rows

\* a run with stitching on whose one part holds such a row next to a row of
\* ns1/pod1/app: the summary counts both, the only stitched log is pod1's
C17_Witness ==
    /\ pc = "done"
    /\ cfg.StitchLogs
    /\ \E j \in 1..Len(tar) :
          /\ tar[j].kind = "part"
          /\ tar[j].dir = "ContainerLogV2"
          /\ Len(tar[j].body) = 2
          /\ \E r \in 1..2 : IsNoise(tar[j].body[r])
          /\ \E r \in 1..2 : ~IsNoise(tar[j].body[r])
          /\ \E k \in 1..Len(tar) :
                tar[k].kind = "summary" /\ tar[k].by = tar[j].by /\ tar[k].body = 2
    /\ DOMAIN stitchedLogs = { K1 }
    /\ Len(stitchedLogs[K1]) = 1

(* C18: a run that could not create its output file, or that lost a write   *)
(* to it, returns an error: a run that returns nil has written the index,   *)
(* its last artifact, and a run whose file cannot be created fails.         *)
C18_SinkFailureFatal ==
    /\ (pc = "done" /\ ret = "nil") => \E j \in 1..Len(tar) : tar[j].kind = "index"
    /\ (pc \notin { "start", "validated", "resolved" } /\ ~sink.creatable) =>
            pc = "failed" /\ ret = "create out"

\* the workspace IDs of WorkspaceIDs that name a subscription, a resource
\* group and a workspace
GoodIDs ==
    { << "", "subscriptions", "sub1", "resourceGroups", "rg1", "providers",
         "Microsoft.OperationalInsights", "workspaces", "ws1" >>,
      << "", "SUBSCRIPTIONS", "sub1", "ResourceGroups", "rg1", "providers",
         "Microsoft.OperationalInsights", "Workspaces", "ws1" >>,
      << " ", "subscriptions", "sub1", "resourceGroups", "rg1", "providers",
         "Microsoft.OperationalInsights", "workspaces", "ws1\n" >> }

\* an invalid timespan, an unparsable workspace ID, or no workspace GUID
BadConfig ==
    \/ cfg.Timespan \in { << >>, << Ch(" ") >>, << Num(2), Ch("H") >>, << Num(30) >>,
                          << Ch("x") >>, << Num(1), Ch("d") >>, << Zeros(1, 0) >>,
                          << Ch("."), Ch("h") >> }
    \/ cfg.WorkspaceID \notin GoodIDs
    \/ workspace.get # "guid"

(* C19: under a configuration error Run returns an error as its first step, *)
(* and a run that returned an error other than a failed creation has        *)
(* created no output file, written no artifact and issued no query.         *)
C19_ConfigErrorFirst ==
    /\ (BadConfig /\ pc # "start") => pc = "failed" /\ ret \notin { "", "nil", "create out" }
    /\ (pc = "failed" /\ ret # "create out") => ~outFile /\ tar = << >> /\ hist = << >>

\* the last of the three errors of the claim, returned with nothing created
C19_Witness ==
    /\ pc = "failed"
    /\ ~outFile
    /\ tar = << >>
    /\ hist = << >>
    /\ ret = "could not determine workspace GUID"
    /\ workspace.get = "noguid"
    /\ cfg.WorkspaceID = << "", "subscriptions", "sub1", "resourceGroups", "rg1",
                           "providers", "Microsoft.OperationalInsights", "workspaces",
                           "ws1" >>

\* the step is a query that returned an error
QueryFailed == Len(hist') = Len(hist) + 1 /\ hist'[Len(hist')].res = "err"

(* C20: a query that fails leaves the archive and the row total of its      *)
(* table as they were and the loop goes on behind its window; no part is    *)
(* ever written for a failed window, and the window after a failed one is   *)
(* queried.                                                                 *)
C20_FailedWindowIsEmpty ==
    /\ [][QueryFailed =>
            /\ tar' = tar
            /\ rowsTotal' = rowsTotal
            /\ chunkIndex' = chunkIndex
            /\ pc' = "windows"
            /\ ti' = ti
            /\ t0' >= hist'[Len(hist')].t1]_vars
    /\ [](\A i \in 1..Len(hist) :
            hist[i].res = "err" =>
                /\ ~\E j \in 1..Len(tar) :
                      /\ tar[j].kind = "part"
                      /\ tar[j].by = hist[i].ti
                      /\ tar[j].from = FormatRFC3339(hist[i].t0)
                /\ (Exported(hist[i].ti) /\ hist[i].t1 - hist[i].t0 = 15 * 60000
                       /\ Lookback = 20 * 60000) =>
                        \E k \in 1..Len(hist) :
                            hist[k].ti = hist[i].ti /\ hist[k].t0 = hist[i].t1)

\* rows in the first window, an error in the second: the summary counts the
\* rows of the first
C20_Witness ==
    /\ pc = "done"
    /\ Len(tables) = 1
    /\ Len(hist) = 2
    /\ hist[1].res = "rows"
    /\ hist[1].rows = 2
    /\ hist[2].res = "err"
    /\ Len(EntriesOf("part", 1)) = 1
    /\ EntriesOf("summary", 1)[1].body = 2

----------------------------------------------------------------------------
\* the part of the archive written for the window of a call, if any
PartsOfCall(c) ==
    SelectSeq(EntriesOf("part", c.ti),
              LAMBDA e : e.from = FormatRFC3339(c.t0) /\ e.to = FormatRFC3339(c.t1))

(* C21: for every entry of the resolved list, a window has a part exactly   *)
(* when its query returned at least one row, and then one part only; the    *)
(* numbers of the parts of the entry rise strictly in the order the windows *)
(* are processed.                                                           *)
C21_PartPerNonEmptyWindow ==
    /\ \A i \in 1..Len(hist) :
          Len(PartsOfCall(hist[i])) = (IF hist[i].res = "rows" /\ hist[i].rows > 0 THEN 1 ELSE 0)
    /\ \A i \in 1..Len(tables) :
          LET parts == EntriesOf("part", i)
          IN  \A x, y \in 1..Len(parts) :
                  x < y => parts[x].idx < parts[y].idx /\ parts[x].from < parts[y].from

\* two windows with a row each: two parts, numbered 0 and 1
C21_Witness ==
    /\ Exported(1)
    /\ Len(CallsOf(1)) = 2
    /\ \A i \in 1..2 : CallsOf(1)[i].res = "rows" /\ CallsOf(1)[i].rows = 1
    /\ Len(EntriesOf("part", 1)) = 2
    /\ EntriesOf("part", 1)[1].idx = 0
    /\ EntriesOf("part", 1)[2].idx = 1

\* the calls made for the same entry of the resolved list before call k of hist
EarlierCalls(k) == { j \in 1..(k - 1) : hist[j].ti = hist[k].ti }

\* those of them that returned rows
EarlierParts(k) == { j \in EarlierCalls(k) : hist[j].res = "rows" /\ hist[j].rows > 0 }

(* C22 as stated: the number in the name of a part is the position of its   *)
(* window among the windows of its table, counted from 0, also when earlier *)
(* windows failed or were empty.                                            *)
C22_PartNumberIsWindowIndex ==
    \A k \in 1..Len(hist) :
        PartsOfCall(hist[k]) # << >> =>
            PartsOfCall(hist[k])[1].idx = Cardinality(EarlierCalls(k))

(* C22 amended: a part is named by a number and the start and end of its    *)
(* window; the number is the count of the earlier windows of the table that *)
(* produced a part, which is the position of the window only when no        *)
(* earlier window failed or was empty.                                      *)
C22_PartNumberIsPartCount ==
    \A i \in 1..Len(tables) :
        LET parts  == EntriesOf("part", i)
            filled == { k \in 1..Len(hist) :
                          hist[k].ti = i /\ hist[k].res = "rows" /\ hist[k].rows > 0 }
        IN  /\ Len(parts) = Cardinality(filled)
            /\ \A k \in filled :
                  LET e == parts[Cardinality(EarlierParts(k)) + 1]
                  IN  /\ e.idx = Cardinality(EarlierParts(k))
                      /\ e.from = FormatRFC3339(hist[k].t0)
                      /\ e.to = FormatRFC3339(hist[k].t1)
                      /\ e.from < e.to
                      /\ EarlierParts(k) = EarlierCalls(k) =>
                              e.idx = Cardinality(EarlierCalls(k))

\* the first window failed, the second returned rows: its part has number 0
C22_Witness ==
    /\ Len(hist) = 2
    /\ hist[1].ti = 1 /\ hist[1].res = "err"
    /\ hist[2].ti = 1 /\ hist[2].res = "rows" /\ hist[2].rows > 0
    /\ Len(EntriesOf("part", 1)) = 1
    /\ EntriesOf("part", 1)[1].idx = 0
    /\ EntriesOf("part", 1)[1].from = FormatRFC3339(hist[2].t0)

\* the entries of the archive of a kind, in the order written
OfKind(kind) == SelectSeq(tar, LAMBDA e : e.kind = kind)

\* the keys of the buffers that hold at least one line
NonEmptyKeys(m) == { k \in DOMAIN m : Len(m[k]) > 0 }

(* C23: a stitched log is written only once every table of the resolved     *)
(* list has been attempted, and after everything written for the tables;    *)
(* after the flush every non-empty buffer has exactly one artifact, which   *)
(* holds its lines; the index is the last entry of a finished run, the only *)
(* index, and lists the resolved tables in order, those whose queries all   *)
(* failed included.                                                         *)
C23_StitchedThenIndex ==
    /\ \A j \in 1..Len(tar) :
          tar[j].kind \in { "log", "events" } =>
              /\ ti > Len(tables)
              /\ \A i \in 1..Len(tables) : Len(CallsOf(i)) = PlannedCount(Lookback)
              /\ \A k \in 1..Len(tar) :
                    tar[k].kind \in { "schema", "part", "summary", "meta" } => k < j
    /\ pc \in { "index", "done" } =>
          /\ Len(OfKind("log")) = Cardinality(NonEmptyKeys(stitchedLogs))
          /\ \A k \in NonEmptyKeys(stitchedLogs) :
                \E j \in 1..Len(tar) : tar[j] = LogEntry(k, stitchedLogs[k])
          /\ Len(OfKind("events")) = Cardinality(NonEmptyKeys(stitchedEvents))
          /\ \A ns \in NonEmptyKeys(stitchedEvents) :
                \E j \in 1..Len(tar) : tar[j] = EventsEntry(ns, stitchedEvents[ns])
    /\ pc # "done" => OfKind("index") = << >>
    /\ pc = "done" =>
          /\ Len(OfKind("index")) = 1
          /\ tar[Len(tar)].kind = "index"
          /\ tar[Len(tar)].body = tables

\* every query of the first table failed, the second table filled an event
\* buffer: the event log comes after both summaries, the index last
C23_Witness ==
    /\ pc = "done"
    /\ tables = << "Perf", "KubeEvents" >>
    /\ \A i \in 1..Len(hist) : hist[i].ti = 1 => hist[i].res = "err"
    /\ Len(CallsOf(1)) = 2
    /\ Len(OfKind("events")) = 1
    /\ tar[Len(tar) - 1].kind = "events"
    /\ tar[Len(tar)].body = << "Perf", "KubeEvents" >>

(* C24: the schema of a table is in the archive exactly when its fetch     *)
(* succeeded; fetched or not, every window of the table is queried, every   *)
(* window that returned rows has its part and the table has its summary; a  *)
(* schema is written before every part and the summary of its table.        *)
C24_SchemaBestEffort ==
    \A i \in 1..Len(schemas) :
        /\ Len(EntriesOf("schema", i)) = (IF schemas[i] THEN 1 ELSE 0)
        /\ Exported(i) =>
              /\ Len(CallsOf(i)) = PlannedCount(Lookback)
              /\ Len(EntriesOf("summary", i)) = 1
              /\ Len(EntriesOf("part", i)) =
                    Cardinality({ k \in 1..Len(hist) :
                                    hist[k].ti = i /\ hist[k].res = "rows" /\ hist[k].rows > 0 })
        /\ \A j, k \in 1..Len(tar) :
              (tar[j].kind = "schema" /\ tar[j].by = i
                  /\ tar[k].kind \in { "part", "summary" } /\ tar[k].by = i) => j < k

\* the schema of the only table could not be fetched: two parts, a summary
C24_Witness ==
    /\ pc = "done"
    /\ schemas = << FALSE >>
    /\ OfKind("schema") = << >>
    /\ Len(EntriesOf("part", 1)) = 2
    /\ Len(EntriesOf("summary", 1)) = 1

\* a message on one line: no carriage return, backslash and n for a newline
RECURSIVE OnOneLine(_)
OnOneLine(msg) ==
    IF msg = << >> THEN << >>
    ELSE IF Head(msg) = "\r" THEN OnOneLine(Tail(msg))
    ELSE IF Head(msg) = "\n" THEN << "\\", "n" >> \o OnOneLine(Tail(msg))
    ELSE << Head(msg) >> \o OnOneLine(Tail(msg))

(* C25: every line of a stitched buffer, container log or event log, holds  *)
(* no carriage return and no newline before its end, and its message is the *)
(* message of a row with the carriage returns taken out and backslash-n in  *)
(* the place of each newline.                                               *)
C25_OneLinePerTuple ==
    /\ \A k \in DOMAIN stitchedLogs : \A i \in 1..Len(stitchedLogs[k]) :
          /\ \A j \in 1..Len(stitchedLogs[k][i].msg) :
                stitchedLogs[k][i].msg[j] \notin { "\r", "\n" }
          /\ \E r \in store.logs : stitchedLogs[k][i].msg = OnOneLine(r.msg)
    /\ \A ns \in DOMAIN stitchedEvents : \A i \in 1..Len(stitchedEvents[ns]) :
          /\ \A j \in 1..Len(stitchedEvents[ns][i].msg) :
                stitchedEvents[ns][i].msg[j] \notin { "\r", "\n" }
          /\ \E r \in store.events : stitchedEvents[ns][i].msg = OnOneLine(r.msg)

\* the rows of the parts of a table named name that satisfy Test
RowsWritten(name, Test(_)) ==
    UNION { { << j, i >> : i \in { x \in 1..Len(tar[j].body) : Test(tar[j].body[x]) } } :
              j \in { y \in 1..Len(tar) : tar[y].kind = "part" /\ tar[y].dir = name } }

\* the buffer an event row belongs to
EventKey(row) == IF row.Namespace = "" THEN "default" ELSE row.Namespace

\* the lines a buffer holds under a key, none when there is no such buffer
LinesUnder(m, k) == IF k \in DOMAIN m THEN Len(m[k]) ELSE 0

(* C26: with --stitch-logs and --stitch-include-events both on, every event *)
(* row returned has a line in the buffer of its namespace, the buffer       *)
(* "default" when the row names none; without both flags no event buffer    *)
(* is filled and no event log written; without --stitch-logs no container   *)
(* log buffer is filled and no container log written.                       *)
C26_EventsByNamespace ==
    /\ "" \notin DOMAIN stitchedEvents
    /\ \A ns \in DOMAIN stitchedEvents : \A i \in 1..Len(stitchedEvents[ns]) :
          stitchedEvents[ns][i].ns = ns
    /\ (cfg.StitchLogs /\ cfg.StitchIncludeEvents) =>
          \A ns \in { "default", "ns1", "" } :
              LinesUnder(stitchedEvents, ns) =
                  Cardinality(RowsWritten("KubeEvents", LAMBDA r : EventKey(r) = ns))
    /\ ~(cfg.StitchLogs /\ cfg.StitchIncludeEvents) =>
          stitchedEvents = << >> /\ OfKind("events") = << >>
    /\ ~cfg.StitchLogs => stitchedLogs = << >> /\ OfKind("log") = << >>
    /\ cfg.StitchLogs =>
          LinesUnder(stitchedLogs, K1) =
              Cardinality(RowsWritten("ContainerLogV2", LAMBDA r : TRUE))
    /\ \A j \in 1..Len(tar) :
          tar[j].kind = "events" =>
              tar[j].dir \in DOMAIN stitchedEvents /\ tar[j].body = stitchedEvents[tar[j].dir]

\* an event of ns1 and an event of no namespace: two buffers, two event logs
C26_Witness ==
    /\ pc = "done"
    /\ cfg.StitchLogs /\ cfg.StitchIncludeEvents
    /\ Cardinality(RowsWritten("KubeEvents", LAMBDA r : r.Namespace = "")) = 1
    /\ DOMAIN stitchedEvents = { "default", "ns1" }
    /\ Len(stitchedEvents["default"]) = 1
    /\ Len(OfKind("events")) = 2

(* C27: every run comes to its end; at no time have more queries been made *)
(* for a table than the windows planned for it, nor more in all than the    *)
(* sum over the tables; no query is made at or behind now, and once the     *)
(* cursor has reached now the next step leaves the window loop; all this    *)
(* also when every query fails.                                             *)
C27_RunTerminates ==
    /\ <>(pc \in { "done", "failed" })
    /\ [](/\ Len(hist) <= Len(tables) * PlannedCount(Lookback)
          /\ \A i \in 1..Len(tables) : Len(CallsOf(i)) <= PlannedCount(Lookback)
          /\ \A k \in 1..Len(hist) : hist[k].t0 < hist[k].t1)
    /\ [][(pc = "windows" /\ t0 >= since) => (pc' = "export" /\ hist' = hist)]_vars

\* a finished run of two tables over the default lookback, all sixteen
\* queries failed
C27_Witness ==
    /\ pc = "done"
    /\ Len(tables) = 2
    /\ Lookback = 0
    /\ Len(hist) = 16
    /\ \A k \in 1..Len(hist) : hist[k].res = "err"

\* C28: the paths of an archive are unique: distinct stitch keys, distinct
\* event namespaces and distinct resolved tables give distinct paths once
\* SafeFileName is applied, and no path is written twice.
C28_PathsUnique ==
    \A i, j \in 1..Len(tar) : i # j => Path(tar[i]) # Path(tar[j])

\* the stitch key of a container-log row
RowKey(row) == [ns |-> row.PodNamespace, pod |-> row.PodName, container |-> row.ContainerName]

\* the rows returned for the key k, each known by the window that returned it
\* (its start and end as the archive names them) and its place in the answer
ReturnedFor(k) ==
    UNION { { << tar[j].from, tar[j].to, i >> :
                i \in { x \in 1..Len(tar[j].body) : RowKey(tar[j].body[x]) = k } } :
            j \in { y \in 1..Len(tar) : tar[y].kind = "part" /\ tar[y].dir = "ContainerLogV2" } }

\* C29: no row is stitched twice: a container-log buffer never holds more
\* lines than rows were returned for its key, each window counted once,
\* whatever the resolved list of tables.
C29_NoRowStitchedTwice ==
    \A k \in DOMAIN stitchedLogs : Len(stitchedLogs[k]) <= Cardinality(ReturnedFor(k))

\* the calls of an operation made so far, as places in ai.calls
CallsMade(op) == { i \in 1..Len(ai.calls) : ai.calls[i].op = op }

(* C30: validateAndFixKQLQuery validates at most three times and asks for   *)
(* a fix at most twice; a query it returns is the one that passed the       *)
(* validation just made; it returns an error exactly after a third failed   *)
(* validation; after a fix request that failed, the next validation is of   *)
(* the query that was validated before it.                                  *)
C30_ValidateAndFix ==
    /\ Cardinality(CallsMade("validate")) <= 3
    /\ Cardinality(CallsMade("fix")) <= 2
    /\ (ai.pc = "returned" /\ ~ai.err) =>
          LET last == ai.calls[Len(ai.calls)]
          IN  last.op = "validate" /\ last.ok /\ last.q = ai.query
    /\ (ai.pc = "returned" /\ ai.err) =>
          /\ Cardinality(CallsMade("validate")) = 3
          /\ \A i \in CallsMade("validate") : ~ai.calls[i].ok
    /\ (Cardinality({ i \in CallsMade("validate") : ~ai.calls[i].ok }) = 3) =>
          ai.pc = "returned" /\ ai.err
    /\ \A i \in CallsMade("fix") :
          (~ai.calls[i].ok /\ i < Len(ai.calls)) =>
              /\ ai.calls[i + 1].op = "validate"
              /\ ai.calls[i + 1].q = ai.calls[i - 1].q

\* two failed validations, the first fix request failed, the second gave q1,
\* which passed the third validation and was returned
C30_Witness ==
    /\ ai.pc = "returned" /\ ~ai.err /\ ai.kqlQuery = "q0" /\ ai.query = "q1"
    /\ Len(ai.calls) = 5
    /\ ~ai.calls[2].ok /\ ai.calls[3].q = "q0"
    /\ ai.calls[4].ok /\ ai.calls[4].answer = "q1"

====
